---- MODULE Spec2Model ----
(***************************************************************************)
(* Consumption ledger of the BarStock backend: the append-only table of    *)
(* ConsumptionEvent rows, the depletion engine that posts to it from       *)
(* canonical sales lines, the correction and session-close services, and   *)
(* the two effective-window resolvers (POS item mappings, tap assignments).*)
(*                                                                         *)
(* Tables are sequences in row order; a row's primary key is its position. *)
(* Timestamps are naturals, quantities are integers, a NULL column is Null.*)
(***************************************************************************)
EXTENDS Integers, Sequences, FiniteSets, TLC

VARIABLES
    sales,        \* table sales_lines
    mappings,     \* table pos_item_mappings
    taps,         \* table tap_assignments
    invSessions,  \* table inventory_sessions, each row with its lines
    ledger,       \* table consumption_events: the committed rows
    pending,      \* per database session: objects added, not yet flushed
    runs,         \* per database session: a depletion run in progress
    now,          \* the last value datetime.utcnow() returned
    result        \* what the last operation returned or raised

vars == <<sales, mappings, taps, invSessions, ledger, pending, runs, now, result>>

-----------------------------------------------------------------------------
(* Bounds of the model *)

MaxTime == 2
MaxLedger == 5

Times == 0..MaxTime
WindowEnds == 1..(MaxTime + 1)

(* A NULL column value (nullable=True columns hold ids and timestamps >= 0) *)
Null == 0 - 1

DbSessions == {"db1", "db2"}
Locations == {"loc1", "loc2"}

-----------------------------------------------------------------------------
(* Helpers over tables *)

Range(s) == {s[i] : i \in 1..Len(s)}

\* Query.first() of a query without ORDER BY: the rows it may return.  The
\* storage returns the kept rows in the order of its access path, so any row
\* the filter keeps may come first; 0 (None) when the filter keeps none.
First(hits) == IF hits = {} THEN {0} ELSE hits

\* Query.all() of a query without ORDER BY: the orders it may return the rows in.
RECURSIVE Orderings(_)
Orderings(rows) ==
    IF rows = {} THEN {<<>>}
    ELSE UNION {{<<x>> \o t : t \in Orderings(rows \ {x})} : x \in rows}

RECURSIVE SumSeq(_)
SumSeq(s) == IF s = <<>> THEN 0 ELSE Head(s) + SumSeq(Tail(s))

Abs(x) == IF x < 0 THEN 0 - x ELSE x

-----------------------------------------------------------------------------
(* Mapping resolver: DepletionEngine._get_active_mapping *)

\* A plausible slip: the window closed on the right.
MappingFilterClosedEnd(m, location_id, source_system, pos_item_id, as_of_date) ==
    /\ m.location_id = location_id
    /\ m.source_system = source_system
    /\ m.pos_item_id = pos_item_id
    /\ m.active = TRUE
    /\ m.effective_from_ts <= as_of_date
    /\ (m.effective_to_ts = Null \/ m.effective_to_ts >= as_of_date)

\* The filter of the query over pos_item_mappings.
MappingFilter(m, location_id, source_system, pos_item_id, as_of_date) ==
    /\ m.location_id = location_id
    /\ m.source_system = source_system
    /\ m.pos_item_id = pos_item_id
    /\ m.active = TRUE
    /\ m.effective_from_ts <= as_of_date
    /\ (m.effective_to_ts = Null \/ m.effective_to_ts > as_of_date)

MappingHits(tbl, location_id, source_system, pos_item_id, as_of_date) ==
    {i \in 1..Len(tbl) :
        MappingFilter(tbl[i], location_id, source_system, pos_item_id, as_of_date)}

\* The row numbers the method may return, 0 for None.  It never raises.
get_active_mapping(tbl, location_id, source_system, pos_item_id, as_of_date) ==
    First(MappingHits(tbl, location_id, source_system, pos_item_id, as_of_date))

\* POSItemMapping.is_effective(as_of_date)
is_effective(m, as_of_date) ==
    IF ~m.active THEN FALSE
    ELSE IF m.effective_from_ts > as_of_date THEN FALSE
    ELSE IF m.effective_to_ts # Null /\ m.effective_to_ts <= as_of_date THEN FALSE
    ELSE TRUE

-----------------------------------------------------------------------------
(* Tap assignment resolver: the query in _deplete_draft_by_tap *)

TapFilter(a, tap_line_id, sold_at) ==
    /\ a.tap_line_id = tap_line_id
    /\ a.effective_start_ts <= sold_at
    /\ (a.effective_end_ts = Null \/ a.effective_end_ts > sold_at)

\* A plausible slip: the assignment open now (no end), not the one at sold_at.
CurrentTapHits(tbl, tap_line_id, sold_at) ==
    {i \in 1..Len(tbl) :
        tbl[i].tap_line_id = tap_line_id /\ tbl[i].effective_end_ts = Null}

TapHits(tbl, tap_line_id, sold_at) ==
    {i \in 1..Len(tbl) : TapFilter(tbl[i], tap_line_id, sold_at)}

\* The row numbers the query for the assignment may return, 0 for None; no
\* query when the mapping has no tap line.
get_tap_assignment(tbl, tap_line_id, sold_at) ==
    IF tap_line_id = Null THEN {0} ELSE First(TapHits(tbl, tap_line_id, sold_at))

-----------------------------------------------------------------------------
(* Reference data read by the engine *)

\* Table pour_profiles: id -> oz per pour.
PourProfiles == <<16, 12>>

\* Table keg_instances: id -> the keg's item and starting volume.
KegInstances == << [inventory_item_id |-> 1, starting_oz |-> 40],
                   [inventory_item_id |-> 1, starting_oz |-> 60] >>

\* A ConsumptionEvent as its constructor leaves it: columns not passed are NULL.
\* The id (uuid4 default) is given at INSERT: it is the row's place in ledger.
NewEvent == [location_id |-> "", event_type |-> "", source_system |-> "",
             event_ts |-> 0, inventory_item_id |-> Null, keg_instance_id |-> Null,
             tap_line_id |-> Null, sales_line_id |-> Null, quantity_delta |-> 0,
             uom |-> "", confidence_level |-> "", variance_reason |-> "null",
             reversal_of_event_id |-> Null]

\* What is left at the place of a row that a DELETE removed: ids are not
\* reused, and no query returns the row.
Deleted == [NewEvent EXCEPT !.event_type = "(deleted)"]

\* db.query(ConsumptionEvent).filter(ConsumptionEvent.id == id).first()
\* returns a row (the id is the primary key: at most one row).
EventFound(led, id) == id \in 1..Len(led) /\ led[id] # Deleted

\* The values n successive calls of datetime.utcnow() may return, from the
\* values clock: the clock does not go back.
Stamps(clock, n) ==
    {stamps \in [1..n -> clock] : \A i \in 1..(n - 1) : stamps[i] <= stamps[i + 1]}

-----------------------------------------------------------------------------
(* Depletion engine: one sales line *)

\* What one _deplete_* / _create_reversal_event call did: the events it
\* passed to db.add, the count it returned, the exception it raised (""
\* for none) and the line it logged.
Outcome(events, n, error, log) ==
    [events |-> events, n |-> n, error |-> error, log |-> log]

\* A plausible slip: the check left out.
never_depleted(led, sales_line_id) == FALSE

\* DepletionEngine._is_already_depleted: a query over the committed rows
\* (the session is autoflush=False and nothing is flushed before commit).
is_already_depleted(led, sales_line_id) ==
    \E i \in 1..Len(led) : led[i].sales_line_id = sales_line_id

\* A plausible slip: the sale posted with the sign of a receipt.
deplete_packaged_unsigned(sl, slId, m) ==
    Outcome(<<[NewEvent EXCEPT
                 !.location_id = sl.location_id,
                 !.event_type = "pos_sale",
                 !.source_system = sl.source_system,
                 !.event_ts = sl.sold_at,
                 !.inventory_item_id = m.inventory_item_id,
                 !.sales_line_id = slId,
                 !.quantity_delta = sl.quantity,
                 !.uom = "units",
                 !.confidence_level = "theoretical"]>>,
            1, "", "created packaged depletion")

\* DepletionEngine._deplete_packaged
deplete_packaged(sl, slId, m) ==
    Outcome(<<[NewEvent EXCEPT
                 !.location_id = sl.location_id,
                 !.event_type = "pos_sale",
                 !.source_system = sl.source_system,
                 !.event_ts = sl.sold_at,
                 !.inventory_item_id = m.inventory_item_id,
                 !.sales_line_id = slId,
                 !.quantity_delta = 0 - sl.quantity,
                 !.uom = "units",
                 !.confidence_level = "theoretical"]>>,
            1, "", "created packaged depletion")

\* A plausible slip: with no keg on the tap, the event created without keg.
deplete_draft_without_keg(sl, slId, m) ==
    IF m.pour_profile_id = Null
    THEN {Outcome(<<>>, 0, "", "no pour profile")}
    ELSE IF m.pour_profile_id \notin DOMAIN PourProfiles
    THEN {Outcome(<<>>, 0, "", "pour profile not found")}
    ELSE LET oz_depleted == sl.quantity * PourProfiles[m.pour_profile_id]
         IN  { Outcome(<<[NewEvent EXCEPT
                     !.location_id = sl.location_id,
                     !.event_type = "pos_sale",
                     !.source_system = sl.source_system,
                     !.event_ts = sl.sold_at,
                     !.inventory_item_id = m.inventory_item_id,
                     !.keg_instance_id =
                         IF a = 0 THEN Null ELSE taps[a].keg_instance_id,
                     !.tap_line_id = m.tap_line_id,
                     !.sales_line_id = slId,
                     !.quantity_delta = 0 - oz_depleted,
                     !.uom = "oz",
                     !.confidence_level = "theoretical"]>>,
                  1, "", "created draft depletion")
               : a \in get_tap_assignment(taps, m.tap_line_id, sl.sold_at) }

\* DepletionEngine._deplete_draft_by_tap: the outcomes the call may have, one
\* for each row the query for the assignment may return.
deplete_draft_by_tap(sl, slId, m) ==
    IF m.pour_profile_id = Null
    THEN {Outcome(<<>>, 0, "", "no pour profile")}
    ELSE IF m.pour_profile_id \notin DOMAIN PourProfiles
    THEN {Outcome(<<>>, 0, "", "pour profile not found")}
    ELSE LET oz_depleted == sl.quantity * PourProfiles[m.pour_profile_id]
         IN  { IF a = 0
               THEN Outcome(<<>>, 0, "", "no tap assignment")
               ELSE Outcome(<<[NewEvent EXCEPT
                     !.location_id = sl.location_id,
                     !.event_type = "pos_sale",
                     !.source_system = sl.source_system,
                     !.event_ts = sl.sold_at,
                     !.inventory_item_id = m.inventory_item_id,
                     !.keg_instance_id = taps[a].keg_instance_id,
                     !.tap_line_id = m.tap_line_id,
                     !.sales_line_id = slId,
                     !.quantity_delta = 0 - oz_depleted,
                     !.uom = "oz",
                     !.confidence_level = "theoretical"]>>,
                  1, "", "created draft depletion")
               : a \in get_tap_assignment(taps, m.tap_line_id, sl.sold_at) }

deplete_draft_by_product(sl, slId, m) ==
    Outcome(<<>>, 0, "", "draft_by_product not recommended")

\* For a draft mapping the method reads the name PourProfile, which the
\* module never imports (the import is local to _deplete_draft_by_tap):
\* the lookup raises NameError before any event is built.
create_reversal_event(sl, slId, m) ==
    IF m.mode = "packaged_unit"
    THEN Outcome(<<[NewEvent EXCEPT
                 !.location_id = sl.location_id,
                 !.event_type = "pos_sale",
                 !.source_system = sl.source_system,
                 !.event_ts = sl.sold_at,
                 !.inventory_item_id = m.inventory_item_id,
                 !.sales_line_id = slId,
                 !.quantity_delta = sl.quantity,
                 !.uom = "units",
                 !.confidence_level = "theoretical"]>>,
            1, "", "created reversal event")
    ELSE Outcome(<<>>, 0, "NameError", "")

\* DepletionEngine._create_consumption_events: the outcomes the call may
\* have (more than one only where a query may return more than one row).
create_consumption_events(sl, slId, m) ==
    IF sl.is_voided \/ sl.is_refunded THEN {create_reversal_event(sl, slId, m)}
    ELSE IF m.mode = "packaged_unit" THEN {deplete_packaged(sl, slId, m)}
    ELSE IF m.mode = "draft_by_tap" THEN deplete_draft_by_tap(sl, slId, m)
    ELSE IF m.mode = "draft_by_product" THEN {deplete_draft_by_product(sl, slId, m)}
    ELSE {Outcome(<<>>, 0, "", "unknown mapping mode")}

\* The state of one call of process_sales_lines: its stats, the events it has
\* passed to db.add, one log line per sales line met, the exception raised.
NewRun == [stats |-> [processed |-> 0, created |-> 0, unmapped |-> 0, skipped |-> 0],
           added |-> <<>>, log |-> <<>>, error |-> ""]

\* A plausible slip: a line without a mapping counted with the skipped ones.
process_one_unmapped_as_skipped(led, st, location_id, slId) ==
    LET sl == sales[slId] IN
    IF is_already_depleted(led, slId)
    THEN {[st EXCEPT !.stats.skipped = @ + 1,
                     !.log = Append(@, <<slId, "already depleted">>)]}
    ELSE UNION {
         IF m = 0
         THEN {[st EXCEPT !.stats.processed = @ + 1,
                          !.stats.skipped = @ + 1,
                          !.log = Append(@, <<slId, "no mapping">>)]}
         ELSE { IF o.error # ""
                THEN [st EXCEPT !.stats.processed = @ + 1,
                                !.error = o.error]
                ELSE [st EXCEPT !.stats.processed = @ + 1,
                                !.stats.created = @ + o.n,
                                !.added = @ \o o.events,
                                !.log = Append(@, <<slId, o.log>>)]
                : o \in create_consumption_events(sl, slId, mappings[m]) }
         : m \in get_active_mapping(mappings, location_id, sl.source_system,
                                    sl.pos_item_id, sl.sold_at) }

\* One pass of the loop body of process_sales_lines, for sales line slId,
\* reading the committed rows led: the states the pass may leave the call in,
\* one for each row a .first() of the pass may return.
process_one(led, st, location_id, slId) ==
    LET sl == sales[slId] IN
    IF is_already_depleted(led, slId)
    THEN {[st EXCEPT !.stats.skipped = @ + 1,
                     !.log = Append(@, <<slId, "already depleted">>)]}
    ELSE UNION {
         IF m = 0
         THEN {[st EXCEPT !.stats.processed = @ + 1,
                          !.stats.unmapped = @ + 1,
                          !.log = Append(@, <<slId, "no mapping">>)]}
         ELSE { IF o.error # ""
                THEN [st EXCEPT !.stats.processed = @ + 1,
                                !.error = o.error]
                ELSE [st EXCEPT !.stats.processed = @ + 1,
                                !.stats.created = @ + o.n,
                                !.added = @ \o o.events,
                                !.log = Append(@, <<slId, o.log>>)]
                : o \in create_consumption_events(sl, slId, mappings[m]) }
         : m \in get_active_mapping(mappings, location_id, sl.source_system,
                                    sl.pos_item_id, sl.sold_at) }

\* A plausible slip: the window closed on the right.
SalesInClosedWindow(location_id, from_ts, to_ts) ==
    Orderings({i \in 1..Len(sales) : /\ sales[i].location_id = location_id
                                     /\ sales[i].sold_at >= from_ts
                                     /\ sales[i].sold_at <= to_ts})

\* The lists of sales lines, by row number, the first query may return: the
\* rows of the window in any order (the query has no ORDER BY).
SalesInWindow(location_id, from_ts, to_ts) ==
    Orderings({i \in 1..Len(sales) : /\ sales[i].location_id = location_id
                                     /\ sales[i].sold_at >= from_ts
                                     /\ sales[i].sold_at < to_ts})

\* The whole loop over the lines ids, stopping at the first exception: the
\* states the loop may end in.
RECURSIVE process_all(_, _, _, _)
process_all(led, st, location_id, ids) ==
    IF ids = <<>> \/ st.error # "" THEN {st}
    ELSE UNION { process_all(led, s, location_id, Tail(ids))
                 : s \in process_one(led, st, location_id, Head(ids)) }

-----------------------------------------------------------------------------
(* Correction service: DepletionEngine.correct_event *)

\* A plausible slip: the reversal posted with the original's sign.
correction_events_same_sign(original_event_id, new_quantity_delta, new_uom, stamps) ==
    LET original == ledger[original_event_id]
        reversal == [NewEvent EXCEPT
            !.location_id = original.location_id,
            !.event_type = original.event_type,
            !.source_system = "manual",
            !.event_ts = stamps[1],
            !.inventory_item_id = original.inventory_item_id,
            !.keg_instance_id = original.keg_instance_id,
            !.tap_line_id = original.tap_line_id,
            !.quantity_delta = original.quantity_delta,
            !.uom = original.uom,
            !.confidence_level = "estimated",
            !.reversal_of_event_id = original_event_id]
        replacement == [NewEvent EXCEPT
            !.location_id = original.location_id,
            !.event_type = original.event_type,
            !.source_system = "manual",
            !.event_ts = stamps[2],
            !.inventory_item_id = original.inventory_item_id,
            !.keg_instance_id = original.keg_instance_id,
            !.tap_line_id = original.tap_line_id,
            !.quantity_delta = new_quantity_delta,
            !.uom = new_uom,
            !.confidence_level = "estimated"]
    IN  <<reversal, replacement>>

\* A plausible slip: the reversal linked to the row it is about to become.
correction_events_self_linked(original_event_id, new_quantity_delta, new_uom, stamps) ==
    LET original == ledger[original_event_id]
        reversal == [NewEvent EXCEPT
            !.location_id = original.location_id,
            !.event_type = original.event_type,
            !.source_system = "manual",
            !.event_ts = stamps[1],
            !.inventory_item_id = original.inventory_item_id,
            !.keg_instance_id = original.keg_instance_id,
            !.tap_line_id = original.tap_line_id,
            !.quantity_delta = 0 - original.quantity_delta,
            !.uom = original.uom,
            !.confidence_level = "estimated",
            !.reversal_of_event_id = Len(ledger) + 1]
        replacement == [NewEvent EXCEPT
            !.location_id = original.location_id,
            !.event_type = original.event_type,
            !.source_system = "manual",
            !.event_ts = stamps[2],
            !.inventory_item_id = original.inventory_item_id,
            !.keg_instance_id = original.keg_instance_id,
            !.tap_line_id = original.tap_line_id,
            !.quantity_delta = new_quantity_delta,
            !.uom = new_uom,
            !.confidence_level = "estimated"]
    IN  <<reversal, replacement>>

\* The two events correct_event builds for the row original_event_id; stamps
\* are the values the two calls of datetime.utcnow() returned, in order.
correction_events(original_event_id, new_quantity_delta, new_uom, stamps) ==
    LET original == ledger[original_event_id]
        reversal == [NewEvent EXCEPT
            !.location_id = original.location_id,
            !.event_type = original.event_type,
            !.source_system = "manual",
            !.event_ts = stamps[1],
            !.inventory_item_id = original.inventory_item_id,
            !.keg_instance_id = original.keg_instance_id,
            !.tap_line_id = original.tap_line_id,
            !.quantity_delta = 0 - original.quantity_delta,
            !.uom = original.uom,
            !.confidence_level = "estimated",
            !.reversal_of_event_id = original_event_id]
        replacement == [NewEvent EXCEPT
            !.location_id = original.location_id,
            !.event_type = original.event_type,
            !.source_system = "manual",
            !.event_ts = stamps[2],
            !.inventory_item_id = original.inventory_item_id,
            !.keg_instance_id = original.keg_instance_id,
            !.tap_line_id = original.tap_line_id,
            !.quantity_delta = new_quantity_delta,
            !.uom = new_uom,
            !.confidence_level = "estimated"]
    IN  <<reversal, replacement>>

-----------------------------------------------------------------------------
(* Session reconciliation: SessionService.close_session *)

VarianceThreshold == 5

\* SessionService._calculate_theoretical_on_hand: the committed rows of the
\* item with event_ts <= as_of, summed.
RECURSIVE calculate_theoretical_on_hand(_, _, _)
calculate_theoretical_on_hand(led, item_id, as_of) ==
    IF led = <<>> THEN 0
    ELSE (IF Head(led).inventory_item_id = item_id /\ Head(led).event_ts <= as_of
          THEN Head(led).quantity_delta ELSE 0)
         + calculate_theoretical_on_hand(Tail(led), item_id, as_of)

\* SessionService._get_actual_from_line
get_actual_from_line(line) ==
    IF line.count_units # Null THEN line.count_units
    ELSE IF line.derived_oz # Null THEN line.derived_oz
    ELSE 0

\* A plausible slip: the threshold itself taken as over the threshold.
over_threshold_inclusive(variance) == Abs(variance) >= VarianceThreshold

\* The threshold check of close_session: strictly over the threshold.
over_threshold(variance) == Abs(variance) > VarianceThreshold

\* One pass of the loop of close_session from the theoretical on-hand it has
\* read: the variance, the item put on requires_reasons, or the event passed
\* to db.add, stamped with the value datetime.utcnow() returns (the first of
\* stamps, read only where an event is built).
close_line(session, line, reasons, theoretical, stamps, acc) ==
    LET actual == get_actual_from_line(line)
        variance == actual - theoretical
        item == line.inventory_item_id
        counted == [acc EXCEPT !.total_variance = @ + Abs(variance)]
    IN  IF over_threshold(variance) /\ item \notin DOMAIN reasons
        THEN [counted EXCEPT !.requires_reasons = Append(@, item)]
        ELSE IF variance # 0
        THEN [counted EXCEPT
               !.added = Append(@, [NewEvent EXCEPT
                   !.location_id = session.location_id,
                   !.event_type = "inventory_count_adjustment",
                   !.source_system = "manual",
                   !.event_ts = Head(stamps),
                   !.inventory_item_id = item,
                   !.quantity_delta = variance,
                   !.uom = "units",
                   !.confidence_level = "measured",
                   !.variance_reason =
                       IF item \in DOMAIN reasons THEN reasons[item]
                       ELSE "null"])]
        ELSE counted

\* The loop of close_session over the session's lines: the events passed to
\* db.add and the items put on requires_reasons.  reasons is the dict
\* variance_reasons (item -> reason); stamps holds the values the calls of
\* datetime.utcnow() return, one call for each adjustment event.
RECURSIVE close_lines(_, _, _, _, _)
close_lines(session, lines, reasons, stamps, acc) ==
    IF lines = <<>> THEN acc
    ELSE LET line == Head(lines)
             theoretical == calculate_theoretical_on_hand(
                                ledger, line.inventory_item_id, session.started_ts)
             next == close_line(session, line, reasons, theoretical, stamps, acc)
         IN  close_lines(session, Tail(lines), reasons,
                         IF Len(next.added) > Len(acc.added) THEN Tail(stamps)
                         ELSE stamps,
                         next)

-----------------------------------------------------------------------------
(* The data the operations run over *)

Mapping(pos, item, mode, pp, tap, active, from, to) ==
    [location_id |-> "loc1", source_system |-> "toast", pos_item_id |-> pos,
     inventory_item_id |-> item, mode |-> mode, pour_profile_id |-> pp,
     tap_line_id |-> tap, active |-> active,
     effective_from_ts |-> from, effective_to_ts |-> to]

Assignment(tap, keg, start, end) ==
    [tap_line_id |-> tap, keg_instance_id |-> keg,
     effective_start_ts |-> start, effective_end_ts |-> end]

Sale(loc, pos, sold_at, qty, voided, refunded) ==
    [location_id |-> loc, source_system |-> "toast", pos_item_id |-> pos,
     sold_at |-> sold_at, quantity |-> qty,
     is_voided |-> voided, is_refunded |-> refunded]

Line(item, units, percent, keg, oz) ==
    [inventory_item_id |-> item, count_units |-> units,
     percent_remaining |-> percent, keg_instance_id |-> keg, derived_oz |-> oz,
     gross_weight_grams |-> Null]

InvSession(started, lines) ==
    [location_id |-> "loc1", started_ts |-> started, ended_ts |-> Null,
     lines |-> lines]

\* Configurations of mappings and tap assignments: a versioned catalogue with
\* a keg swap on tap 1 at time 2, and one with the defects the schema allows
\* (no pour profile, an inactive row, overlapping windows of mappings and of
\* tap assignments, a gap on the tap).
Catalogues ==
    { [mappings |-> << Mapping("pint", 1, "draft_by_tap", 1, 1, TRUE, 0, Null),
                       Mapping("can", 2, "packaged_unit", Null, Null, TRUE, 0, 2),
                       Mapping("can", 3, "packaged_unit", Null, Null, TRUE, 2, Null),
                       Mapping("jug", 1, "draft_by_product", 1, Null, TRUE, 0, Null) >>,
       taps |-> << Assignment(1, 1, 1, 2), Assignment(1, 2, 2, Null) >>],
      [mappings |-> << Mapping("pint", 1, "draft_by_tap", 2, 1, TRUE, 1, Null),
                       Mapping("can", 2, "packaged_unit", Null, Null, FALSE, 0, Null),
                       Mapping("can", 3, "packaged_unit", Null, Null, TRUE, 1, Null),
                       Mapping("can", 2, "packaged_unit", Null, Null, TRUE, 2, Null),
                       Mapping("jug", 1, "draft_by_tap", Null, 1, TRUE, 0, Null) >>,
       taps |-> << Assignment(1, 1, 0, 2), Assignment(2, 2, 0, Null),
                   Assignment(1, 2, 1, 2) >>] }

SaleRows ==
    << Sale("loc1", "can", 1, 2, FALSE, FALSE),
       Sale("loc1", "pint", 1, 3, FALSE, FALSE),
       Sale("loc1", "pint", MaxTime, 1, FALSE, FALSE),
       Sale("loc1", "can", 2, 1, FALSE, TRUE),
       Sale("loc1", "soda", 0, 1, FALSE, FALSE),
       Sale("loc1", "jug", 0, 1, FALSE, FALSE),
       Sale("loc2", "can", 1, 1, FALSE, FALSE),
       Sale("loc1", "pint", 2, 2, TRUE, FALSE) >>

SalesTables ==
    { <<SaleRows[i], SaleRows[j]>> : i \in {1, 2, 4, 5}, j \in 1..Len(SaleRows) }

\* The tables the full service mix runs over: a can sale, and a pint sale or
\* a voided pint (whose run fails, after the can's event was added when the
\* query returned the can first).
LedgerSalesTables ==
    { <<SaleRows[1], SaleRows[j]>> : j \in {2, Len(SaleRows)} }

SessionTables ==
    { << InvSession(2, << Line(3, 5, Null, Null, Null), Line(2, 6, Null, Null, Null) >>) >>,
      << InvSession(1, << Line(2, 0, Null, Null, Null), Line(1, Null, 50, 1, Null) >>) >> }

ReasonDicts == { <<>>, [i \in {2} |-> "comp"] }

-----------------------------------------------------------------------------
(* Operations *)

Idle == [pc |-> "idle", location_id |-> "", ids |-> <<>>, todo |-> <<>>,
         args |-> <<>>, st |-> NewRun]

NoResult == [op |-> "none", status |-> "", error |-> "", args |-> <<>>,
             ids |-> <<>>, stats |-> NewRun.stats, emitted |-> <<>>,
             log |-> <<>>, ret |-> <<>>]

\* Session.commit(): the flush INSERTs every pending object of the session, in
\* the order they were added, and the transaction commits.
Commit(db, added) ==
    /\ ledger' = ledger \o pending[db] \o added
    /\ pending' = [pending EXCEPT ![db] = <<>>]

\* A plausible slip: a session that flushes and commits each db.add at once
\* (autocommit), so that what was added before an exception is posted.
RaiseAutocommit(db, added) ==
    /\ ledger' = ledger \o pending[db] \o added
    /\ pending' = [pending EXCEPT ![db] = <<>>]

\* An exception leaves the function before commit: what it passed to db.add
\* stays pending in the session; the function itself never rolls back.
Raise(db, added) ==
    /\ pending' = [pending EXCEPT ![db] = @ \o added]
    /\ UNCHANGED ledger

InWindow(from_ts, to_ts) == from_ts \in Times /\ to_ts \in WindowEnds /\ from_ts < to_ts

\* DepletionEngine.process_sales_lines, as one step: used where nothing else
\* writes or removes rows of sales lines between the queries of a run and
\* its commit.
\* The storage chooses the order of the lines and the row of each .first().
ProcessSalesLines(db, location_id, from_ts, to_ts) ==
    \E ids \in SalesInWindow(location_id, from_ts, to_ts) :
    \E st \in process_all(ledger, NewRun, location_id, ids) :
    LET res == [NoResult EXCEPT !.op = "run", !.args = <<location_id, from_ts, to_ts>>,
                                !.ids = ids, !.stats = st.stats,
                                !.emitted = st.added, !.log = st.log]
    IN  /\ runs[db].pc = "idle"
        /\ Len(ledger) + Len(pending[db]) + Len(st.added) <= MaxLedger
        /\ IF st.error # ""
           THEN /\ Raise(db, st.added)
                /\ result' = [res EXCEPT !.status = "error", !.error = st.error]
           ELSE /\ Commit(db, st.added)
                /\ result' = [res EXCEPT !.status = "ok"]
        /\ UNCHANGED <<sales, mappings, taps, invSessions, runs, now>>

\* A plausible slip: the correction written onto the original row.
CorrectEventInPlace(db, original_event_id, new_quantity_delta, new_uom, stamps) ==
    /\ original_event_id \in 1..Len(ledger)
    /\ ledger' = [ledger EXCEPT ![original_event_id].quantity_delta = new_quantity_delta,
                                ![original_event_id].uom = new_uom]
    /\ result' = [NoResult EXCEPT !.op = "correct", !.status = "ok",
                     !.args = <<original_event_id, new_quantity_delta, new_uom>>]
    /\ UNCHANGED <<sales, mappings, taps, invSessions, pending, runs, now>>

\* A plausible slip: an unknown id answered with an empty result, no exception.
CorrectEventMissingOk(db, original_event_id, new_quantity_delta, new_uom, stamps) ==
    LET res == [NoResult EXCEPT !.op = "correct",
                   !.args = <<original_event_id, new_quantity_delta, new_uom>>]
    IN  /\ runs[db].pc = "idle"
        /\ IF ~EventFound(ledger, original_event_id)
           THEN /\ Raise(db, <<>>)
                /\ result' = [res EXCEPT !.status = "ok"]
                /\ UNCHANGED now
           ELSE LET evs == correction_events(original_event_id,
                                             new_quantity_delta, new_uom, stamps)
                    base == Len(ledger) + Len(pending[db])
                IN  /\ stamps[1] >= now
                    /\ base + 2 <= MaxLedger
                    /\ Commit(db, evs)
                    /\ now' = stamps[Len(stamps)]
                    /\ result' = [res EXCEPT !.status = "ok", !.emitted = evs,
                                             !.ret = <<base + 1, base + 2>>]
        /\ UNCHANGED <<sales, mappings, taps, invSessions, runs>>

\* DepletionEngine.correct_event, as one step (no other writer runs between
\* its commit and its return).  stamps are the values its two calls of
\* datetime.utcnow() return.
CorrectEvent(db, original_event_id, new_quantity_delta, new_uom, stamps) ==
    LET res == [NoResult EXCEPT !.op = "correct",
                   !.args = <<original_event_id, new_quantity_delta, new_uom>>]
    IN  /\ runs[db].pc = "idle"
        /\ IF ~EventFound(ledger, original_event_id)
           THEN /\ Raise(db, <<>>)
                /\ result' = [res EXCEPT !.status = "error",
                                         !.error = "ValueError: Event not found"]
                /\ UNCHANGED now
           ELSE LET evs == correction_events(original_event_id,
                                             new_quantity_delta, new_uom, stamps)
                    base == Len(ledger) + Len(pending[db])
                IN  /\ stamps[1] >= now
                    /\ base + 2 <= MaxLedger
                    /\ Commit(db, evs)
                    /\ now' = stamps[Len(stamps)]
                    /\ result' = [res EXCEPT !.status = "ok", !.emitted = evs,
                                             !.ret = <<base + 1, base + 2>>]
        /\ UNCHANGED <<sales, mappings, taps, invSessions, runs>>

\* The orders in which the lines of the session can be walked: the
\* relationship InventorySession.lines declares no order_by, so the rows come
\* in whatever order the storage returns them.
session_lines(session) ==
    {[i \in 1..Len(session.lines) |-> session.lines[order[i]]] :
        order \in Orderings(1..Len(session.lines))}

\* A plausible slip: the check of ended_ts left out, so that a closed session
\* is reconciled and stamped again.
CloseSessionAgain(db, session_id, variance_reasons, stamps) ==
    LET res == [NoResult EXCEPT !.op = "close",
                                !.args = <<session_id, variance_reasons>>]
    IN  /\ runs[db].pc = "idle"
        /\ \A i \in 1..Len(stamps) : stamps[i] >= now
        /\ IF session_id \notin 1..Len(invSessions)
           THEN /\ Raise(db, <<>>)
                /\ result' = [res EXCEPT !.status = "error",
                                         !.error = "ValueError: Session not found"]
                /\ UNCHANGED <<invSessions, now>>
           ELSE \E lines \in session_lines(invSessions[session_id]) :
                LET session == invSessions[session_id]
                    acc == close_lines(session, lines, variance_reasons, stamps,
                               [added |-> <<>>, requires_reasons |-> <<>>,
                                total_variance |-> 0])
                    posted == Len(acc.added)
                IN  /\ Len(ledger) + Len(pending[db]) + posted <= MaxLedger
                    /\ IF acc.requires_reasons # <<>>
                       THEN /\ Raise(db, acc.added)
                            /\ now' = IF posted = 0 THEN now ELSE stamps[posted]
                            /\ result' = [res EXCEPT !.status = "error",
                                   !.error = "ValueError: Variance reasons required",
                                   !.emitted = acc.added,
                                   !.ret = acc.requires_reasons]
                            /\ UNCHANGED invSessions
                       ELSE /\ Commit(db, acc.added)
                            /\ now' = stamps[posted + 1]
                            /\ invSessions' = [invSessions EXCEPT
                                                  ![session_id].ended_ts =
                                                      stamps[posted + 1]]
                            /\ result' = [res EXCEPT !.status = "ok",
                                   !.emitted = acc.added,
                                   !.ret = <<Len(acc.added), acc.total_variance>>]
        /\ UNCHANGED <<sales, mappings, taps, runs>>

\* SessionService.close_session.  stamps are the values the calls of
\* datetime.utcnow() return, in order: one for each adjustment event and,
\* when the session closes, one for ended_ts.
CloseSession(db, session_id, variance_reasons, stamps) ==
    LET res == [NoResult EXCEPT !.op = "close",
                                !.args = <<session_id, variance_reasons>>]
    IN  /\ runs[db].pc = "idle"
        /\ \A i \in 1..Len(stamps) : stamps[i] >= now
        /\ IF session_id \notin 1..Len(invSessions)
           THEN /\ Raise(db, <<>>)
                /\ result' = [res EXCEPT !.status = "error",
                                         !.error = "ValueError: Session not found"]
                /\ UNCHANGED <<invSessions, now>>
           ELSE IF invSessions[session_id].ended_ts # Null
           THEN /\ Raise(db, <<>>)
                /\ result' = [res EXCEPT !.status = "error",
                                         !.error = "ValueError: Session already closed"]
                /\ UNCHANGED <<invSessions, now>>
           ELSE \E lines \in session_lines(invSessions[session_id]) :
                LET session == invSessions[session_id]
                    acc == close_lines(session, lines, variance_reasons, stamps,
                               [added |-> <<>>, requires_reasons |-> <<>>,
                                total_variance |-> 0])
                    posted == Len(acc.added)
                IN  /\ Len(ledger) + Len(pending[db]) + posted <= MaxLedger
                    /\ IF acc.requires_reasons # <<>>
                       THEN /\ Raise(db, acc.added)
                            /\ now' = IF posted = 0 THEN now ELSE stamps[posted]
                            /\ result' = [res EXCEPT !.status = "error",
                                   !.error = "ValueError: Variance reasons required",
                                   !.emitted = acc.added,
                                   !.ret = acc.requires_reasons]
                            /\ UNCHANGED invSessions
                       ELSE /\ Commit(db, acc.added)
                            /\ now' = stamps[posted + 1]
                            /\ invSessions' = [invSessions EXCEPT
                                                  ![session_id].ended_ts =
                                                      stamps[posted + 1]]
                            /\ result' = [res EXCEPT !.status = "ok",
                                   !.emitted = acc.added,
                                   !.ret = <<Len(acc.added), acc.total_variance>>]
        /\ UNCHANGED <<sales, mappings, taps, runs>>

\* get_db's finally clause: db.close() drops what the session still holds.
CloseDb(db) ==
    /\ runs[db].pc = "idle"
    /\ pending[db] # <<>>
    /\ pending' = [pending EXCEPT ![db] = <<>>]
    /\ result' = [NoResult EXCEPT !.op = "db.close"]
    /\ UNCHANGED <<sales, mappings, taps, invSessions, ledger, runs, now>>

-----------------------------------------------------------------------------
(* The services called one after the other on one database session *)

InitTables ==
    /\ ledger = <<>>
    /\ pending = [db \in DbSessions |-> <<>>]
    /\ runs = [db \in DbSessions |-> Idle]
    /\ now = 0
    /\ result = NoResult

\* utcnow() does not go back: the values it may return from now on.
Ticks == now..MaxTime

\* The values the clock takes where the services run one after the other:
\* it stands, or it jumps to MaxTime, between any two reads.
Clock == {now, MaxTime}

InitDeplete ==
    /\ InitTables
    /\ \E c \in Catalogues : mappings = c.mappings /\ taps = c.taps
    /\ sales \in SalesTables
    /\ invSessions \in SessionTables

Init ==
    /\ InitTables
    /\ \E c \in Catalogues : mappings = c.mappings /\ taps = c.taps
    /\ sales \in LedgerSalesTables
    /\ invSessions \in SessionTables

Run ==
    \E location_id \in Locations, from_ts \in Times, to_ts \in WindowEnds :
        /\ from_ts < to_ts
        /\ ProcessSalesLines("db1", location_id, from_ts, to_ts)

\* correct_event reads the clock twice, once the original is found.
Correct ==
    \E id \in 1..(Len(ledger) + 1), d \in {1}, u \in {"units", "oz"} :
    \E stamps \in Stamps(Clock, IF EventFound(ledger, id) THEN 2 ELSE 0) :
        CorrectEvent("db1", id, d, u, stamps)

\* The number of times close_session reads the clock once it is past its
\* two checks: once for each adjustment event and once more when it closes
\* the session.
ClockReads(sid, reasons) ==
    IF sid \notin 1..Len(invSessions) THEN 0
    ELSE LET session == invSessions[sid]
             acc == close_lines(session, session.lines, reasons,
                        [i \in 1..Len(session.lines) |-> now],
                        [added |-> <<>>, requires_reasons |-> <<>>,
                         total_variance |-> 0])
         IN  Len(acc.added) + (IF acc.requires_reasons = <<>> THEN 1 ELSE 0)

Close ==
    \E sid \in 1..(Len(invSessions) + 1), reasons \in ReasonDicts :
    \E stamps \in Stamps(Clock, ClockReads(sid, reasons)) :
        CloseSession("db1", sid, reasons, stamps)

DbClose == CloseDb("db1")

\* The depletion job of the one location that has sales: each run takes the
\* window from the start of the data to some end.
Deplete ==
    \E to_ts \in WindowEnds : ProcessSalesLines("db1", "loc1", 0, to_ts)

Next == Deplete \/ Correct \/ Close \/ DbClose

Spec == Init /\ [][Next]_vars

-----------------------------------------------------------------------------
(* Depletion runs alone, one after the other on one database session *)

NextDeplete == Run \/ DbClose

SpecDeplete == InitDeplete /\ [][NextDeplete]_vars

-----------------------------------------------------------------------------
(* Two depletion runs at once, each on its own database session.  Every      *)
(* query of a run reads the rows committed at that moment.                  *)

\* A session whose one run has returned or raised.
Returned == [Idle EXCEPT !.pc = "returned"]

RunBegin(db, location_id, from_ts, to_ts) ==
    /\ runs[db].pc = "idle"
    /\ \E ids \in SalesInWindow(location_id, from_ts, to_ts) :
          runs' = [runs EXCEPT ![db] =
                      [pc |-> "loop", location_id |-> location_id, ids |-> ids,
                       todo |-> ids, args |-> <<location_id, from_ts, to_ts>>,
                       st |-> NewRun]]
    /\ UNCHANGED <<sales, mappings, taps, invSessions, ledger, pending, now, result>>

RunResult(r) ==
    [NoResult EXCEPT !.op = "run", !.args = r.args, !.ids = r.ids,
                     !.stats = r.st.stats, !.emitted = r.st.added, !.log = r.st.log]

RunStep(db) ==
    /\ runs[db].pc = "loop"
    /\ runs[db].todo # <<>>
    /\ \E st \in process_one(ledger, runs[db].st, runs[db].location_id,
                             Head(runs[db].todo)) :
       LET r == runs[db]
           after == [r EXCEPT !.st = st, !.todo = Tail(@)]
       IN  IF st.error # ""
           THEN /\ Raise(db, st.added)
                /\ runs' = [runs EXCEPT ![db] = Returned]
                /\ result' = [RunResult(after) EXCEPT !.status = "error",
                                                      !.error = st.error]
           ELSE /\ runs' = [runs EXCEPT ![db] = after]
                /\ UNCHANGED <<ledger, pending, result>>
    /\ UNCHANGED <<sales, mappings, taps, invSessions, now>>

RunCommit(db) ==
    /\ runs[db].pc = "loop"
    /\ runs[db].todo = <<>>
    /\ Len(ledger) + Len(pending[db]) + Len(runs[db].st.added) <= MaxLedger
    /\ Commit(db, runs[db].st.added)
    /\ runs' = [runs EXCEPT ![db] = Returned]
    /\ result' = [RunResult(runs[db]) EXCEPT !.status = "ok"]
    /\ UNCHANGED <<sales, mappings, taps, invSessions, now>>

\* The caller has the stats the run returned, or the exception it raised:
\* the session is free for its next call.
RunReturn(db) ==
    /\ runs[db].pc = "returned"
    /\ runs' = [runs EXCEPT ![db] = Idle]
    /\ UNCHANGED <<sales, mappings, taps, invSessions, ledger, pending, now, result>>

\* The versioned catalogue, and sales lines none of which makes a run fail.
InitConc ==
    /\ InitTables
    /\ \E c \in Catalogues :
          /\ c.taps[1].effective_start_ts = 1
          /\ mappings = c.mappings /\ taps = c.taps
    /\ sales \in { <<SaleRows[i], SaleRows[j]>> : i \in {1, 2}, j \in 1..4 }
    /\ invSessions \in SessionTables

Begin ==
    \E db \in DbSessions, from_ts \in Times, to_ts \in WindowEnds :
        from_ts < to_ts /\ RunBegin(db, "loc1", from_ts, to_ts)

Step == \E db \in DbSessions : RunStep(db)

Finish == \E db \in DbSessions : RunCommit(db)

NextConc == Begin \/ Step \/ Finish

SpecConc == InitConc /\ [][NextConc]_vars

-----------------------------------------------------------------------------
(* The mapping resolver alone, over every small mappings table *)

MaxRows == 2

MappingRows ==
    { Mapping("pint", 1, "packaged_unit", Null, Null, active, from, to) :
        active \in BOOLEAN, from \in Times, to \in Times \cup {Null} }

RECURSIVE TablesOver(_, _)
TablesOver(rows, n) ==
    IF n = 0 THEN { <<>> }
    ELSE LET shorter == TablesOver(rows, n - 1)
         IN  shorter \cup { Append(t, r) : t \in {x \in shorter : Len(x) = n - 1},
                                            r \in rows }

InitResolve ==
    /\ InitTables
    /\ mappings \in TablesOver(MappingRows, MaxRows)
    /\ taps = <<>>
    /\ sales = <<>>
    /\ invSessions = <<>>

ResolveMapping(pos_item_id, as_of_date) ==
    /\ \E m \in get_active_mapping(mappings, "loc1", "toast", pos_item_id, as_of_date) :
          result' = [NoResult EXCEPT !.op = "resolve", !.status = "ok",
                        !.args = <<pos_item_id, as_of_date>>,
                        !.ret = <<m>>]
    /\ UNCHANGED <<sales, mappings, taps, invSessions, ledger, pending, runs, now>>

NextResolve ==
    \E pos_item_id \in {"pint", "can"}, as_of_date \in Times :
        ResolveMapping(pos_item_id, as_of_date)

SpecResolve == InitResolve /\ [][NextResolve]_vars

-----------------------------------------------------------------------------
(* Updates and deletes of posted events *)

\* A plausible slip: a listener that does not raise.
listener_without_raise(target) == ""

\* The before_update listener: the exception it raises.
block_consumption_event_update(target) ==
    "ValueError: ConsumptionEvent records are immutable"

\* The before_delete listener: the exception it raises.
block_consumption_event_delete(target) ==
    "ValueError: ConsumptionEvent records cannot be deleted"

\* What Base.metadata.create_all (init_db, setup_database) creates for
\* consumption_events besides the columns: the keys and NOT NULLs of the
\* model, and no trigger or rule.
StorageRules == {"primary key", "foreign keys", "not null"}

\* A flush that raises: the session rolls its transaction back, drops the
\* objects that were pending in it, and refuses further work until
\* rollback() or close().
FlushFails(db) ==
    /\ pending' = [pending EXCEPT ![db] = <<>>]
    /\ runs' = [runs EXCEPT ![db] = [Idle EXCEPT !.pc = "inactive"]]
    /\ UNCHANGED ledger

\* A loaded event changed through the session, then commit: the flush calls
\* the listener before it would emit the UPDATE.
OrmUpdate(db, id, new_quantity_delta) ==
    LET exc == block_consumption_event_update(ledger[id])
        res == [NoResult EXCEPT !.op = "orm update", !.args = <<id, new_quantity_delta>>]
    IN  /\ runs[db].pc = "idle"
        /\ EventFound(ledger, id)
        /\ IF exc # ""
           THEN /\ result' = [res EXCEPT !.status = "error", !.error = exc]
                /\ FlushFails(db)
           ELSE /\ result' = [res EXCEPT !.status = "ok"]
                /\ ledger' = [ledger EXCEPT ![id].quantity_delta = new_quantity_delta]
                /\ UNCHANGED <<pending, runs>>
        /\ UNCHANGED <<sales, mappings, taps, invSessions, now>>

\* db.delete(event), then commit.
OrmDelete(db, id) ==
    LET exc == block_consumption_event_delete(ledger[id])
        res == [NoResult EXCEPT !.op = "orm delete", !.args = <<id>>]
    IN  /\ runs[db].pc = "idle"
        /\ EventFound(ledger, id)
        /\ IF exc # ""
           THEN /\ result' = [res EXCEPT !.status = "error", !.error = exc]
                /\ FlushFails(db)
           ELSE /\ result' = [res EXCEPT !.status = "ok"]
                /\ ledger' = [ledger EXCEPT ![id] = Deleted]
                /\ UNCHANGED <<pending, runs>>
        /\ UNCHANGED <<sales, mappings, taps, invSessions, now>>

\* Any use of a session whose flush has failed, before rollback() or close().
UseInactive(db) ==
    /\ runs[db].pc = "inactive"
    /\ result' = [NoResult EXCEPT !.op = "session use", !.status = "error",
                                  !.error = "PendingRollbackError"]
    /\ UNCHANGED <<sales, mappings, taps, invSessions, ledger, pending, runs, now>>

\* db.rollback(), or get_db's db.close(), on a session whose flush has failed.
Rollback(db) ==
    /\ runs[db].pc = "inactive"
    /\ runs' = [runs EXCEPT ![db] = Idle]
    /\ result' = [NoResult EXCEPT !.op = "db.rollback"]
    /\ UNCHANGED <<sales, mappings, taps, invSessions, ledger, pending, now>>

\* An UPDATE statement sent to the storage itself (a connection, psql, a bulk
\* Query.update): no mapper event fires; only the storage's own rules apply.
RawUpdate(id, new_quantity_delta) ==
    LET res == [NoResult EXCEPT !.op = "raw update", !.args = <<id, new_quantity_delta>>]
    IN  /\ EventFound(ledger, id)
        /\ IF "block update trigger" \in StorageRules
           THEN /\ result' = [res EXCEPT !.status = "error", !.error = "rejected by trigger"]
                /\ UNCHANGED ledger
           ELSE /\ result' = [res EXCEPT !.status = "ok"]
                /\ ledger' = [ledger EXCEPT ![id].quantity_delta = new_quantity_delta]
        /\ UNCHANGED <<sales, mappings, taps, invSessions, pending, runs, now>>

\* A DELETE statement sent to the storage itself; the self-reference of
\* reversal_of_event_id is a foreign key the storage does enforce.
RawDelete(id) ==
    LET res == [NoResult EXCEPT !.op = "raw delete", !.args = <<id>>]
    IN  /\ EventFound(ledger, id)
        /\ IF "block delete trigger" \in StorageRules
           THEN /\ result' = [res EXCEPT !.status = "error", !.error = "rejected by trigger"]
                /\ UNCHANGED ledger
           ELSE IF \E j \in 1..Len(ledger) : ledger[j].reversal_of_event_id = id
           THEN /\ result' = [res EXCEPT !.status = "error", !.error = "IntegrityError"]
                /\ UNCHANGED ledger
           ELSE /\ result' = [res EXCEPT !.status = "ok"]
                /\ ledger' = [ledger EXCEPT ![id] = Deleted]
        /\ UNCHANGED <<sales, mappings, taps, invSessions, pending, runs, now>>

UpdateThroughSession == \E id \in 1..MaxLedger : OrmUpdate("db1", id, 7)

DeleteThroughSession == \E id \in 1..MaxLedger : OrmDelete("db1", id)

UpdateInStorage == \E id \in 1..MaxLedger : RawUpdate(id, 7)

DeleteInStorage == \E id \in 1..MaxLedger : RawDelete(id)

\* Rows to act on: runs over the whole table, and corrections.  A run is
\* its query for the lines, one pass of its loop for each line, its commit
\* and its return; statements sent to the storage fall between any two.  A
\* run begins while the ledger has room for an event of every line.
Populate ==
    /\ Len(ledger) + Len(pending["db1"]) + Len(sales) <= MaxLedger
    /\ RunBegin("db1", "loc1", 0, MaxTime + 1)

PopulateLine == RunStep("db1")

PopulateCommits == RunCommit("db1")

PopulateReturns == RunReturn("db1")

\* DepletionEngine.correct_event up to its db.commit(): the query for the
\* original, the two events built from the row as read, and db.add of both.
CorrectQuery(db, original_event_id, new_quantity_delta, new_uom, stamps) ==
    LET res == [NoResult EXCEPT !.op = "correct",
                   !.args = <<original_event_id, new_quantity_delta, new_uom>>]
    IN  /\ runs[db].pc = "idle"
        /\ IF ~EventFound(ledger, original_event_id)
           THEN /\ Raise(db, <<>>)
                /\ result' = [res EXCEPT !.status = "error",
                                         !.error = "ValueError: Event not found"]
                /\ UNCHANGED <<runs, now>>
           ELSE LET evs == correction_events(original_event_id,
                                             new_quantity_delta, new_uom, stamps)
                IN  /\ stamps[1] >= now
                    /\ Len(ledger) + Len(pending[db]) + 2 <= MaxLedger
                    /\ pending' = [pending EXCEPT ![db] = @ \o evs]
                    /\ UNCHANGED ledger
                    /\ now' = stamps[Len(stamps)]
                    /\ runs' = [runs EXCEPT ![db] =
                                  [Idle EXCEPT !.pc = "commit", !.args = res.args]]
                    /\ result' = [res EXCEPT !.status = "added", !.emitted = evs]
        /\ UNCHANGED <<sales, mappings, taps, invSessions>>

\* The db.commit() of correct_event: the flush INSERTs what the session
\* holds, and the storage checks reversal_of_event_id against the rows it has
\* then.  A row of the original that is gone makes the INSERT fail.  After a
\* commit the two objects are expired, and the call has still to read their
\* ids.
CorrectCommit(db) ==
    LET c == runs[db]
        added == pending[db]
        n == Len(added)
        base == Len(ledger) + n - 2
        res == [NoResult EXCEPT !.op = "correct", !.args = c.args,
                                !.emitted = SubSeq(added, n - 1, n)]
    IN  /\ c.pc = "commit"
        /\ IF \E k \in 1..n : /\ added[k].reversal_of_event_id # Null
                              /\ ~EventFound(ledger, added[k].reversal_of_event_id)
           THEN /\ FlushFails(db)
                /\ result' = [res EXCEPT !.status = "error",
                                         !.error = "IntegrityError"]
           ELSE /\ Commit(db, <<>>)
                /\ runs' = [runs EXCEPT ![db] =
                              [Idle EXCEPT !.pc = "ids",
                                           !.ids = <<base + 1, base + 2>>,
                                           !.args = c.args]]
                /\ result' = [res EXCEPT !.status = "committed"]
        /\ UNCHANGED <<sales, mappings, taps, invSessions, now>>

\* The return statement of correct_event: reversal.id and replacement.id are
\* read from objects the commit expired, so each read is a query for the row,
\* and a row that is gone by then makes the read raise.
CorrectReturn(db) ==
    LET c == runs[db]
        res == [NoResult EXCEPT !.op = "correct", !.args = c.args]
    IN  /\ c.pc = "ids"
        /\ runs' = [runs EXCEPT ![db] = Idle]
        /\ IF \E k \in 1..Len(c.ids) : ~EventFound(ledger, c.ids[k])
           THEN result' = [res EXCEPT !.status = "error",
                                      !.error = "ObjectDeletedError"]
           ELSE result' = [res EXCEPT !.status = "ok", !.ret = c.ids]
        /\ UNCHANGED <<sales, mappings, taps, invSessions, ledger, pending, now>>

\* Corrections of the rows that are or were in the table; the clock stands.
Amend ==
    \E id \in 1..Len(ledger) :
    \E stamps \in Stamps({now}, IF EventFound(ledger, id) THEN 2 ELSE 0) :
        CorrectQuery("db1", id, 1, "units", stamps)

AmendCommits == CorrectCommit("db1")

AmendReturns == CorrectReturn("db1")

SessionRefuses == UseInactive("db1")

SessionReset == Rollback("db1")

InitStore ==
    /\ InitTables
    /\ \E c \in Catalogues : mappings = c.mappings /\ taps = c.taps
    /\ sales = <<SaleRows[1], SaleRows[2]>>
    /\ invSessions = <<>>

NextStore ==
    \/ Populate \/ PopulateLine \/ PopulateCommits \/ PopulateReturns
    \/ Amend \/ AmendCommits \/ AmendReturns
    \/ UpdateThroughSession \/ DeleteThroughSession
    \/ SessionRefuses \/ SessionReset
    \/ UpdateInStorage \/ DeleteInStorage

SpecStore == InitStore /\ [][NextStore]_vars

-----------------------------------------------------------------------------
(* Vocabulary of the properties, written from the data alone *)

\* t lies in the half-open window [from, to), to = Null for an open end.
Covers(from, to, t) == from <= t /\ (to = Null \/ t < to)

\* Rows of the ledger led that reference sales line slId.
EventsOf(led, slId) == {i \in 1..Len(led) : led[i].sales_line_id = slId}

\* Active mappings of the key whose window covers t.
EffectiveMappings(location_id, source_system, pos_item_id, t) ==
    {i \in 1..Len(mappings) :
        /\ mappings[i].location_id = location_id
        /\ mappings[i].source_system = source_system
        /\ mappings[i].pos_item_id = pos_item_id
        /\ mappings[i].active
        /\ Covers(mappings[i].effective_from_ts, mappings[i].effective_to_ts, t)}

\* Assignments of the tap line whose window covers t.
EffectiveAssignments(tap_line_id, t) ==
    {j \in 1..Len(taps) :
        /\ taps[j].tap_line_id = tap_line_id
        /\ Covers(taps[j].effective_start_ts, taps[j].effective_end_ts, t)}

\* The ledger before the step holds every row unchanged after it.
RowsKept == \A i \in 1..Len(ledger) : i <= Len(ledger') /\ ledger'[i] = ledger[i]

-----------------------------------------------------------------------------
(* C1: over any sequence of depletion runs, corrections and session closes *)
(* every event in the ledger before a call is in it afterwards, with the   *)
(* same fields: the calls only add rows.                                   *)
C1_AppendOnly == [][RowsKept]_vars

\* A ledger that holds a sale's event, a correction's reversal and a
\* session's adjustment.
C1_Witness ==
    /\ \E i \in 1..Len(ledger) : ledger[i].sales_line_id # Null
    /\ \E i \in 1..Len(ledger) : ledger[i].reversal_of_event_id # Null
    /\ \E i \in 1..Len(ledger) : ledger[i].event_type = "inventory_count_adjustment"

(* C2: an update or a delete of a posted event attempted through the        *)
(* session fails with the listener's exception and leaves the row as it was.*)
C2_SessionWritesBlocked ==
    [][result'.op \in {"orm update", "orm delete"} =>
          /\ result'.status = "error"
          /\ result'.error \in {"ValueError: ConsumptionEvent records are immutable",
                                "ValueError: ConsumptionEvent records cannot be deleted"}
          /\ ledger' = ledger]_vars

\* An update was attempted on a posted event, and a delete on another.
C2_Witness ==
    /\ result.op = "orm update"
    /\ result.status = "error"
    /\ Len(ledger) >= 2
    /\ ledger[result.args[1]].sales_line_id # Null

(* C3 as claimed: an update or a delete sent to the storage itself, past   *)
(* the session, is rejected and leaves the table as it was.                *)
C3_StorageWritesBlocked ==
    [][result'.op \in {"raw update", "raw delete"} =>
          result'.status = "error" /\ ledger' = ledger]_vars

(* C4: a run made right after a run that returned, over the same location  *)
(* and window and the same tables, creates nothing, adds nothing to the    *)
(* ledger, and counts as skipped every line that an event references.      *)
C4_SecondRunCreatesNothing ==
    [][(/\ result.op = "run" /\ result.status = "ok"
        /\ result'.op = "run" /\ result'.args = result.args
        /\ sales' = sales /\ mappings' = mappings /\ taps' = taps)
       => /\ result'.status = "ok"
          /\ result'.stats.created = 0
          /\ result'.emitted = <<>>
          /\ ledger' = ledger
          /\ result'.stats.skipped =
                Cardinality({k \in 1..Len(result'.ids) :
                                EventsOf(ledger, result'.ids[k]) # {}})]_vars

\* A run that found both lines of its window depleted by the run before it.
C4_Witness ==
    /\ result.op = "run" /\ result.status = "ok"
    /\ Len(result.ids) = 2
    /\ result.stats.skipped = 2
    /\ result.stats.created = 0

(* C5 as claimed: with two runs at once, no sales line ends up referenced  *)
(* by more than one event.                                                 *)
C5_OneEventPerSalesLine ==
    \A slId \in 1..Len(sales) : Cardinality(EventsOf(ledger, slId)) <= 1

(* C6 as claimed: a run that fails leaves the ledger as it was and nothing *)
(* it emitted is posted later; a run that returns adds to the ledger the   *)
(* events it emitted, and only those.                                      *)
C6_RunAllOrNothing ==
    [][result'.op = "run" =>
          IF result'.status = "error"
          THEN ledger' = ledger
          ELSE ledger' = ledger \o result'.emitted]_vars

(* C7 as claimed: when more than one active mapping of the key covers the  *)
(* timestamp, resolution fails instead of returning one of them.           *)
C7_AmbiguityRaises ==
    (/\ result.op = "resolve"
     /\ Cardinality(EffectiveMappings("loc1", "toast", result.args[1], result.args[2])) > 1)
    => result.status = "error"

\* No two active rows of one key have windows with a common instant.
NonOverlapping ==
    \A i, j \in 1..Len(mappings) :
        (/\ i # j
         /\ mappings[i].active /\ mappings[j].active
         /\ mappings[i].pos_item_id = mappings[j].pos_item_id
         /\ mappings[i].location_id = mappings[j].location_id
         /\ mappings[i].source_system = mappings[j].source_system)
        => ~ \E t \in Times :
               /\ Covers(mappings[i].effective_from_ts, mappings[i].effective_to_ts, t)
               /\ Covers(mappings[j].effective_from_ts, mappings[j].effective_to_ts, t)

(* C8: over windows that do not overlap per key, resolution at t returns   *)
(* the one active mapping with from <= t and (to unset or to > t), or none *)
(* when there is no such row; it never raises; the row it returns is       *)
(* effective at t in the sense of POSItemMapping.is_effective.             *)
C8_ResolveExact ==
    (result.op = "resolve" /\ NonOverlapping) =>
        LET hits == EffectiveMappings("loc1", "toast", result.args[1], result.args[2])
            m == result.ret[1]
        IN  /\ result.status = "ok"
            /\ (hits = {} => m = 0)
            /\ (hits # {} => hits = {m})
            /\ (m # 0 => is_effective(mappings[m], result.args[2]))

\* Resolution at the very end of an active row's window returned none, and
\* the row was selected at the start of its window.
C8_Witness ==
    /\ result.op = "resolve"
    /\ Len(mappings) = 1
    /\ mappings[1].active
    /\ mappings[1].effective_from_ts < result.args[2]
    /\ mappings[1].effective_to_ts = result.args[2]
    /\ result.args[1] = mappings[1].pos_item_id
    /\ result.ret = <<0>>

\* The lines of the run of this step that its loop went through.
Reached == 1..Len(result'.log)

\* Line k of the run of this step was not depleted before the run, is not
\* voided or refunded, and has one effective mapping, tap-scoped draft with
\* a pour profile.
DraftLine(k) ==
    LET slId == result'.ids[k]
        sl == sales[slId]
        ms == EffectiveMappings(result'.args[1], sl.source_system,
                                sl.pos_item_id, sl.sold_at)
    IN  /\ EventsOf(ledger, slId) = {}
        /\ ~sl.is_voided /\ ~sl.is_refunded
        /\ Cardinality(ms) = 1
        /\ \A m \in ms : /\ mappings[m].mode = "draft_by_tap"
                         /\ mappings[m].pour_profile_id \in DOMAIN PourProfiles

MappingOfLine(k) ==
    LET sl == sales[result'.ids[k]]
    IN  mappings[CHOOSE m \in EffectiveMappings(result'.args[1], sl.source_system,
                                                sl.pos_item_id, sl.sold_at) : TRUE]

AssignmentsOfLine(k) ==
    EffectiveAssignments(MappingOfLine(k).tap_line_id, sales[result'.ids[k]].sold_at)

(* C9: for a tap-scoped draft line with an assignment covering the sale    *)
(* timestamp, the run emits exactly one event: delta = -(quantity x oz of  *)
(* the pour profile), unit oz, the mapping's item and tap line, and the    *)
(* keg of an assignment in effect at the sale timestamp.                   *)
C9_DraftEvent ==
    [][result'.op = "run" =>
        \A k \in Reached :
            (DraftLine(k) /\ AssignmentsOfLine(k) # {}) =>
                LET slId == result'.ids[k]
                    sl == sales[slId]
                    m == MappingOfLine(k)
                    evs == EventsOf(result'.emitted, slId)
                IN  /\ Cardinality(evs) = 1
                    /\ \A i \in evs :
                        LET e == result'.emitted[i]
                        IN  /\ e.quantity_delta =
                                  0 - (sl.quantity * PourProfiles[m.pour_profile_id])
                            /\ e.uom = "oz"
                            /\ e.event_type = "pos_sale"
                            /\ e.inventory_item_id = m.inventory_item_id
                            /\ e.tap_line_id = m.tap_line_id
                            /\ \E j \in AssignmentsOfLine(k) :
                                  e.keg_instance_id = taps[j].keg_instance_id]_vars

\* Three pints of 16 oz sold while keg 1 was on the tap, depleted by a run
\* made when another keg is on it: one event of -48 oz on keg 1.
C9_Witness ==
    /\ result.op = "run" /\ result.status = "ok"
    /\ \E i \in 1..Len(result.emitted) :
          LET e == result.emitted[i]
          IN  /\ e.uom = "oz"
              /\ e.quantity_delta = 0 - 48
              /\ e.keg_instance_id = 1
              /\ \E j \in 1..Len(taps) :
                    /\ taps[j].tap_line_id = e.tap_line_id
                    /\ taps[j].effective_end_ts = Null
                    /\ taps[j].keg_instance_id # 1

(* C10 as claimed: a tap-scoped draft line with no assignment in effect at *)
(* its sale timestamp gets no event, the run goes on and returns, and the  *)
(* line is counted in skipped or unmapped beside the lines already         *)
(* depleted and the lines without a mapping.                               *)
C10_UnresolvedCounted ==
    [][(result'.op = "run" /\ result'.status = "ok") =>
        LET ks == 1..Len(result'.ids)
            depleted == {k \in ks : EventsOf(ledger, result'.ids[k]) # {}}
            unmapped == {k \in ks \ depleted :
                            LET sl == sales[result'.ids[k]]
                            IN  EffectiveMappings(result'.args[1], sl.source_system,
                                                  sl.pos_item_id, sl.sold_at) = {}}
            unresolved == {k \in ks : DraftLine(k) /\ AssignmentsOfLine(k) = {}}
        IN  /\ \A k \in unresolved : EventsOf(result'.emitted, result'.ids[k]) = {}
            /\ Reached = ks
            /\ result'.stats.skipped + result'.stats.unmapped
                  >= Cardinality(depleted) + Cardinality(unmapped)
                     + Cardinality(unresolved)]_vars

\* Line k of the run of this step is the first line of the window at which
\* the loop did not go on.
StoppedAt(k) == result'.status = "error" /\ k = Len(result'.log) + 1

(* C11 as claimed: a tap-scoped draft line whose tap has more than one      *)
(* assignment covering the sale timestamp makes the resolution fail, and   *)
(* no event of the line is attributed to a keg.                            *)
C11_AmbiguousAssignmentRaises ==
    [][result'.op = "run" =>
        \A k \in Reached :
            (DraftLine(k) /\ Cardinality(AssignmentsOfLine(k)) > 1) =>
                /\ result'.status = "error"
                /\ EventsOf(result'.emitted, result'.ids[k]) = {}]_vars

\* Line k of the run of this step was not depleted before the run and no
\* mapping is effective at its sale timestamp.
UnmappedLine(k) ==
    LET slId == result'.ids[k]
        sl == sales[slId]
    IN  /\ EventsOf(ledger, slId) = {}
        /\ EffectiveMappings(result'.args[1], sl.source_system,
                             sl.pos_item_id, sl.sold_at) = {}

(* C12: every line without an effective mapping that a run meets adds one  *)
(* to unmapped and gets no event, and the loop goes on to the next line:   *)
(* such a line is never the one the run stops at, and a run that returns   *)
(* has gone through every line of its window.                              *)
C12_UnmappedCounted ==
    [][result'.op = "run" =>
        LET ks == 1..Len(result'.ids)
        IN  /\ result'.stats.unmapped =
                  Cardinality({k \in Reached : UnmappedLine(k)})
            /\ \A k \in ks : UnmappedLine(k) =>
                  /\ EventsOf(result'.emitted, result'.ids[k]) = {}
                  /\ EventsOf(ledger', result'.ids[k]) = {}
                  /\ ~StoppedAt(k)
            /\ (result'.status = "ok" => Reached = ks)]_vars

\* A run that returned after an unmapped first line and an event created for
\* the line after it.
C12_Witness ==
    /\ result.op = "run" /\ result.status = "ok"
    /\ Len(result.ids) = 2
    /\ result.log[1][2] = "no mapping"
    /\ result.stats.unmapped = 1
    /\ result.stats.created = 1
    /\ EventsOf(ledger, result.ids[2]) # {}

\* The lines of the run of this step that its loop entered: those it went
\* through and the one it stopped at.
Met == {k \in 1..Len(result'.ids) : k \in Reached \/ StoppedAt(k)}

\* Line k of the run of this step was not depleted before the run, is voided
\* or refunded, and has one effective mapping.
VoidLine(k) ==
    LET slId == result'.ids[k]
        sl == sales[slId]
    IN  /\ EventsOf(ledger, slId) = {}
        /\ sl.is_voided \/ sl.is_refunded
        /\ Cardinality(EffectiveMappings(result'.args[1], sl.source_system,
                                         sl.pos_item_id, sl.sold_at)) = 1

\* The events the same line could have got had it been neither voided nor
\* refunded.
UnvoidedEvents(k) ==
    LET slId == result'.ids[k]
        sl == [sales[slId] EXCEPT !.is_voided = FALSE, !.is_refunded = FALSE]
    IN  UNION { Range(o.events)
                : o \in create_consumption_events(sl, slId, MappingOfLine(k)) }

(* C13 as claimed: for a voided or refunded line with a mapping, whatever  *)
(* the mapping's mode, the run emits exactly one event: positive delta, of *)
(* the size and unit of the depletion the line would have posted, the      *)
(* sales line as provenance, confidence theoretical, no reversal_of.       *)
C13_VoidReversal ==
    [][result'.op = "run" =>
        \A k \in Met : VoidLine(k) =>
            LET slId == result'.ids[k]
                evs == EventsOf(result'.emitted, slId)
                dep == UnvoidedEvents(k)
            IN  /\ Cardinality(evs) = 1
                /\ \A i \in evs :
                    LET e == result'.emitted[i]
                    IN  /\ e.quantity_delta > 0
                        /\ e.sales_line_id = slId
                        /\ e.confidence_level = "theoretical"
                        /\ e.reversal_of_event_id = Null
                        /\ \A d \in dep :
                              /\ e.quantity_delta = 0 - d.quantity_delta
                              /\ e.uom = d.uom]_vars

(* C14 as claimed: no line makes a run fail: every run goes through all    *)
(* the lines of its window, commits what it emitted and returns its stats. *)
C14_FailingLineNotFatal ==
    [][result'.op = "run" =>
          /\ result'.status = "ok"
          /\ Reached = 1..Len(result'.ids)
          /\ ledger' = ledger \o pending["db1"] \o result'.emitted]_vars

(* C15 as claimed: a correction of an existing event adds exactly two rows *)
(* to the ledger in one commit: a reversal (delta = -(original delta), the *)
(* original's unit, item, keg and tap, reversal_of = the original's id,    *)
(* confidence estimated) and a replacement (delta and unit as given, the   *)
(* original's item, keg and tap, confidence estimated, no reversal_of);    *)
(* the call returns the ids of the two, in that order.                     *)
C15_CorrectionPair ==
    [][(result'.op = "correct" /\ result'.status = "ok") =>
        LET id == result'.args[1]
            original == ledger[id]
            n == Len(ledger')
        IN  /\ id \in 1..Len(ledger)
            /\ n = Len(ledger) + 2
            /\ RowsKept
            /\ result'.ret = <<n - 1, n>>
            /\ LET reversal == ledger'[n - 1]
                   replacement == ledger'[n]
               IN  /\ reversal.quantity_delta = 0 - original.quantity_delta
                   /\ reversal.uom = original.uom
                   /\ reversal.inventory_item_id = original.inventory_item_id
                   /\ reversal.keg_instance_id = original.keg_instance_id
                   /\ reversal.tap_line_id = original.tap_line_id
                   /\ reversal.reversal_of_event_id = id
                   /\ reversal.confidence_level = "estimated"
                   /\ replacement.quantity_delta = result'.args[2]
                   /\ replacement.uom = result'.args[3]
                   /\ replacement.inventory_item_id = original.inventory_item_id
                   /\ replacement.keg_instance_id = original.keg_instance_id
                   /\ replacement.tap_line_id = original.tap_line_id
                   /\ replacement.reversal_of_event_id = Null
                   /\ replacement.confidence_level = "estimated"]_vars

\* A plausible slip: events stamped at the cutoff itself left out.
RECURSIVE on_hand_before_cutoff(_, _, _)
on_hand_before_cutoff(led, item_id, as_of) ==
    IF led = <<>> THEN 0
    ELSE (IF Head(led).inventory_item_id = item_id /\ Head(led).event_ts < as_of
          THEN Head(led).quantity_delta ELSE 0)
         + on_hand_before_cutoff(Tail(led), item_id, as_of)

\* InventoryService.calculate_on_hand, for one item: the deltas of the item's
\* events with event_ts <= as_of, summed whatever their unit.
RECURSIVE calculate_on_hand(_, _, _)
calculate_on_hand(led, item_id, as_of) ==
    IF led = <<>> THEN 0
    ELSE (IF Head(led).inventory_item_id = item_id /\ Head(led).event_ts <= as_of
          THEN Head(led).quantity_delta ELSE 0)
         + calculate_on_hand(Tail(led), item_id, as_of)

(* C16: after a correction of event e to delta d, the on-hand of e's item, *)
(* as of any time from which e and the correction's pair are all counted,  *)
(* equals the on-hand over the same ledger without the pair and with e's   *)
(* delta set to d; the row of e is as it was.                              *)
C16_CorrectionInvariance ==
    [][(result'.op = "correct" /\ result'.status = "ok") =>
        LET e == result'.args[1]
            d == result'.args[2]
            n == Len(ledger')
            item == ledger[e].inventory_item_id
            asIf == [SubSeq(ledger', 1, n - 2) EXCEPT ![e].quantity_delta = d]
        IN  /\ ledger'[e] = ledger[e]
            /\ \A as_of \in Times :
                  (as_of >= ledger'[n].event_ts /\ as_of >= ledger[e].event_ts) =>
                      calculate_on_hand(ledger', item, as_of)
                          = calculate_on_hand(asIf, item, as_of)]_vars

\* A correction that changed the on-hand of the item: the original delta was
\* not the corrected one, and other events of the item are in the ledger.
C16_Witness ==
    /\ result.op = "correct" /\ result.status = "ok"
    /\ Len(result.ret) = 2
    /\ ledger[result.args[1]].quantity_delta # result.args[2]
    /\ calculate_on_hand(ledger, ledger[result.args[1]].inventory_item_id, MaxTime)
          = result.args[2]

(* C17: a correction whose id matches no event fails with the not-found    *)
(* error and adds nothing: the ledger and what the session holds pending   *)
(* are as before.                                                          *)
C17_CorrectUnknownFails ==
    [][(result'.op = "correct" /\ result'.args[1] \notin 1..Len(ledger)) =>
          /\ result'.status = "error"
          /\ result'.error = "ValueError: Event not found"
          /\ result'.emitted = <<>>
          /\ ledger' = ledger
          /\ pending' = pending]_vars

\* A correction refused for an id one past the last event of a ledger that
\* holds events.
C17_Witness ==
    /\ result.op = "correct" /\ result.status = "error"
    /\ Len(ledger) >= 1
    /\ result.args[1] = Len(ledger) + 1

(* C18 as claimed: no event's reversal_of points at an event that is       *)
(* itself a reversal.                                                      *)
C18_NoReversalOfReversal ==
    \A i \in 1..Len(ledger) :
        ledger[i].reversal_of_event_id # Null =>
            ledger[ledger[i].reversal_of_event_id].reversal_of_event_id = Null

\* The variance close_session computes for line k of session sid: the count
\* less the theoretical on-hand as of the session's start.
Variance(sid, k) ==
    LET session == invSessions[sid]
        line == session.lines[k]
    IN  get_actual_from_line(line)
          - calculate_theoretical_on_hand(ledger, line.inventory_item_id,
                                          session.started_ts)

\* The lines of session sid whose variance is over the threshold and whose
\* item has no reason in reasons.
NeedsReason(sid, reasons) ==
    {k \in 1..Len(invSessions[sid].lines) :
        /\ Abs(Variance(sid, k)) > VarianceThreshold
        /\ invSessions[sid].lines[k].inventory_item_id \notin DOMAIN reasons}

\* Rows of led that are count adjustments of the item.
AdjustmentsOf(led, item_id) ==
    {i \in 1..Len(led) : /\ led[i].event_type = "inventory_count_adjustment"
                         /\ led[i].inventory_item_id = item_id}

(* C19: a close of an open session in which a line needs a reason that was *)
(* not supplied fails; the call leaves the session open, with no end       *)
(* timestamp, and posts no adjustment event, not even for the lines that   *)
(* needed no reason: the ledger is as it was.                              *)
C19_CloseWithoutReasonFails ==
    [][(/\ result'.op = "close"
        /\ result'.args[1] \in 1..Len(invSessions)
        /\ invSessions[result'.args[1]].ended_ts = Null
        /\ NeedsReason(result'.args[1], result'.args[2]) # {})
       => /\ result'.status = "error"
          /\ result'.error = "ValueError: Variance reasons required"
          /\ invSessions' = invSessions
          /\ invSessions'[result'.args[1]].ended_ts = Null
          /\ ledger' = ledger]_vars

\* A close refused for a missing reason after it had built the adjustment
\* of another line: the session is open and the ledger has no adjustment.
C19_Witness ==
    /\ result.op = "close" /\ result.status = "error"
    /\ result.ret # <<>>
    /\ result.emitted # <<>>
    /\ invSessions[result.args[1]].ended_ts = Null
    /\ \A i \in 1..Len(ledger) : ledger[i].event_type # "inventory_count_adjustment"

(* C20 as claimed: when a close returns, the ledger holds one adjustment   *)
(* event for each line of the session with a nonzero variance and none for *)
(* the others, whatever close attempts failed before it on the session.    *)
C20_RetryPostsOncePerLine ==
    [][(result'.op = "close" /\ result'.status = "ok") =>
        LET sid == result'.args[1]
            lines == invSessions[sid].lines
        IN  /\ invSessions'[sid].ended_ts # Null
            /\ \A k \in 1..Len(lines) :
                  Cardinality(AdjustmentsOf(ledger', lines[k].inventory_item_id))
                      = IF Variance(sid, k) # 0 THEN 1 ELSE 0]_vars

(* C21: a session closes at most once and stays closed: a close of a       *)
(* session whose end timestamp is set fails, leaves the session row as it  *)
(* was and posts nothing; no step changes the row of a closed session; and *)
(* a close that adds rows to the ledger is the one that takes its session  *)
(* from open to closed, so over a sequence of close calls the adjustments  *)
(* of a session are posted in one commit.                                  *)
C21_ClosedIsTerminal ==
    [][/\ \A sid \in 1..Len(invSessions) :
             invSessions[sid].ended_ts # Null => invSessions'[sid] = invSessions[sid]
       /\ (result'.op = "close" /\ result'.args[1] \in 1..Len(invSessions)) =>
             LET sid == result'.args[1]
             IN  /\ invSessions[sid].ended_ts # Null =>
                       /\ result'.status = "error"
                       /\ result'.error = "ValueError: Session already closed"
                       /\ result'.emitted = <<>>
                       /\ ledger' = ledger
                       /\ pending' = pending
                 /\ ledger' # ledger =>
                       /\ invSessions[sid].ended_ts = Null
                       /\ invSessions'[sid].ended_ts # Null]_vars

\* A close refused on a session that an earlier close had closed with
\* adjustments posted.
C21_Witness ==
    /\ result.op = "close"
    /\ result.error = "ValueError: Session already closed"
    /\ invSessions[result.args[1]].ended_ts # Null
    /\ \E i \in 1..Len(ledger) : ledger[i].event_type = "inventory_count_adjustment"

(* C22: a close of an open session fails for missing reasons exactly when *)
(* some line has abs(variance) > threshold and no reason for its item, and *)
(* the error lists the items of exactly those lines, in line order; a line *)
(* at the threshold or with a reason supplied does not block the close.    *)
C22_MissingReasonExactly ==
    [][(/\ result'.op = "close"
        /\ result'.args[1] \in 1..Len(invSessions)
        /\ invSessions[result'.args[1]].ended_ts = Null) =>
        LET sid == result'.args[1]
            lines == invSessions[sid].lines
            need == NeedsReason(sid, result'.args[2])
        IN  /\ (result'.status = "error") = (need # {})
            /\ result'.status = "error" =>
                  /\ result'.error = "ValueError: Variance reasons required"
                  /\ Len(result'.ret) = Cardinality(need)
                  /\ {result'.ret[n] : n \in 1..Len(result'.ret)}
                        = {lines[k].inventory_item_id : k \in need}
            /\ \A k \in 1..Len(lines) :
                  (\/ Abs(Variance(sid, k)) <= VarianceThreshold
                   \/ lines[k].inventory_item_id \in DOMAIN result'.args[2])
                  => \A n \in 1..Len(result'.ret) :
                        result'.status = "error" =>
                            result'.ret[n] # lines[k].inventory_item_id]_vars

\* A close that returned for a session with one line exactly at the
\* threshold and one over it with its reason supplied.
C22_Witness ==
    /\ result.op = "close" /\ result.status = "ok"
    /\ \E i, j \in 1..Len(ledger) :
          /\ ledger[i].event_type = "inventory_count_adjustment"
          /\ Abs(ledger[i].quantity_delta) = VarianceThreshold
          /\ ledger[i].variance_reason = "null"
          /\ ledger[j].event_type = "inventory_count_adjustment"
          /\ Abs(ledger[j].quantity_delta) > VarianceThreshold
          /\ ledger[j].variance_reason # "null"

\* The deltas of the rows idx of led, summed.
RECURSIVE DeltaSum(_, _)
DeltaSum(led, idx) ==
    IF idx = {} THEN 0
    ELSE LET i == CHOOSE x \in idx : TRUE
         IN  led[i].quantity_delta + DeltaSum(led, idx \ {i})

\* Rows of led for the item with event timestamp up to t.
ItemEventsUpTo(led, item_id, t) ==
    {i \in 1..Len(led) : led[i].inventory_item_id = item_id /\ led[i].event_ts <= t}

\* Python's float arithmetic (IEEE 754 binary64, round to nearest, ties to
\* even) for the expression of get_counted_quantity.  A float in the making is
\* [sign, bits, exp]: sign * 1.b2...b53 * 2^exp, bits the 53 bits of the
\* significand from the highest (<<>> for zero).  The long division and the
\* long multiplication go by hexadecimal digits.
MantissaBits == 53

\* The hexadecimal digits of a natural number, highest first; <<>> for 0.
RECURSIVE HexDigits(_)
HexDigits(n) == IF n = 0 THEN <<>> ELSE HexDigits(n \div 16) \o <<n % 16>>

\* The bits of a sequence of hexadecimal digits.
BitsOf(digits) ==
    [j \in 1..(4 * Len(digits)) |->
        (digits[((j - 1) \div 4) + 1] \div (2 ^ (3 - ((j - 1) % 4)))) % 2]

\* The hexadecimal digits of a sequence of bits, filled with zeros in front.
DigitsOf(bits) ==
    LET n == (Len(bits) + 3) \div 4
        pad == 4 * n - Len(bits)
        bit(j) == IF j <= pad THEN 0 ELSE bits[j - pad]
    IN  [d \in 1..n |-> 8 * bit(4 * d - 3) + 4 * bit(4 * d - 2)
                          + 2 * bit(4 * d - 1) + bit(4 * d)]

\* bits without the zeros in front.
Significant(bits) ==
    LET lead == CHOOSE i \in 1..Len(bits) :
                    bits[i] = 1 /\ \A j \in 1..(i - 1) : bits[j] = 0
    IN  [i \in 1..(Len(bits) - lead + 1) |-> bits[i + lead - 1]]

\* The exponent e of num/den > 0: 2^e <= num/den < 2^(e + 1).
RECURSIVE float_exponent(_, _)
float_exponent(num, den) ==
    IF num >= 2 * den THEN float_exponent(num, 2 * den) + 1
    ELSE IF num < den THEN float_exponent(2 * num, den) - 1
    ELSE 0

\* The first k hexadecimal digits of r/den after the point, for 0 <= r < den.
RECURSIVE quotient_digits(_, _, _)
quotient_digits(r, den, k) ==
    IF k = 0 THEN <<>>
    ELSE <<(16 * r) \div den>> \o quotient_digits((16 * r) % den, den, k - 1)

\* What is left of r/den after those k digits.
RECURSIVE quotient_rest(_, _, _)
quotient_rest(r, den, k) ==
    IF k = 0 THEN r ELSE quotient_rest((16 * r) % den, den, k - 1)

\* bits + 1, for bits that are not all ones.
increment(bits) ==
    LET last == CHOOSE i \in 1..Len(bits) :
                    bits[i] = 0 /\ \A j \in (i + 1)..Len(bits) : bits[j] = 1
    IN  [i \in 1..Len(bits) |-> IF i < last THEN bits[i]
                                 ELSE IF i = last THEN 1 ELSE 0]

\* The float nearest to sign * 1.b2...bn * 2^exp (n >= 53; sticky tells of
\* nonzero bits beyond bn), ties to the even significand.
float_round(sign, bits, sticky, exp) ==
    LET kept == SubSeq(bits, 1, MantissaBits)
        guard == Len(bits) > MantissaBits /\ bits[MantissaBits + 1] = 1
        low == sticky \/ \E i \in (MantissaBits + 2)..Len(bits) : bits[i] = 1
        up == guard /\ (low \/ kept[MantissaBits] = 1)
    IN  IF ~up THEN [sign |-> sign, bits |-> kept, exp |-> exp]
        ELSE IF \A i \in 1..MantissaBits : kept[i] = 1
        THEN [sign |-> sign, exp |-> exp + 1,
              bits |-> [i \in 1..MantissaBits |-> IF i = 1 THEN 1 ELSE 0]]
        ELSE [sign |-> sign, bits |-> increment(kept), exp |-> exp]

FloatZero == [sign |-> 1, bits |-> <<>>, exp |-> 0]

\* x / y in floats, for whole numbers x and y # 0.
float_div(x, y) ==
    IF x = 0 THEN FloatZero
    ELSE LET e == float_exponent(Abs(x), Abs(y))
             num == IF e < 0 THEN Abs(x) * (2 ^ (0 - e)) ELSE Abs(x)
             den == IF e > 0 THEN Abs(y) * (2 ^ e) ELSE Abs(y)
             sign == IF (x < 0) = (y < 0) THEN 1 ELSE 0 - 1
         IN  float_round(sign,
                         <<1>> \o BitsOf(quotient_digits(num - den, den, 14)),
                         quotient_rest(num - den, den, 14) # 0, e)

\* The digits of (digits[1..i] * y + carry), y a natural number.
RECURSIVE times_digits(_, _, _, _)
times_digits(digits, y, i, carry) ==
    IF i = 0 THEN HexDigits(carry)
    ELSE times_digits(digits, y, i - 1, (digits[i] * y + carry) \div 16)
           \o <<(digits[i] * y + carry) % 16>>

\* f * y in floats, for a float f and a whole number y.
float_mul(f, y) ==
    IF f.bits = <<>> \/ y = 0 THEN FloatZero
    ELSE LET digits == DigitsOf(f.bits)
             product == Significant(BitsOf(times_digits(digits, Abs(y),
                                                        Len(digits), 0)))
         IN  float_round(IF y < 0 THEN 0 - f.sign ELSE f.sign, product, FALSE,
                         f.exp + Len(product) - MantissaBits)

\* The float as a value of the model: the whole number it equals, when it is
\* one (20.0 == 20), and otherwise what float.hex() shows of it, sign *
\* 0x1.<hex>p<exp>, the 13 hexadecimal digits as numbers.
float_value(f) ==
    IF f.bits = <<>> THEN 0
    ELSE IF /\ f.exp \in 0..30
            /\ \A i \in (f.exp + 2)..MantissaBits : f.bits[i] = 0
    THEN f.sign * SumSeq([i \in 1..(f.exp + 1) |-> f.bits[i] * (2 ^ (f.exp + 1 - i))])
    ELSE [sign |-> f.sign, exp |-> f.exp,
          hex |-> [d \in 1..13 |-> 8 * f.bits[4 * d - 2] + 4 * f.bits[4 * d - 1]
                                     + 2 * f.bits[4 * d] + f.bits[4 * d + 1]]]

\* InventorySessionLine.get_counted_quantity: the counted quantity and its
\* unit, by the line's populated count method; <<Null, "">> for (None, None).
get_counted_quantity(line) ==
    IF line.count_units # Null THEN <<line.count_units, "units">>
    ELSE IF line.percent_remaining # Null /\ line.keg_instance_id # Null
    THEN (IF line.keg_instance_id \in DOMAIN KegInstances
          THEN <<float_value(float_mul(float_div(line.percent_remaining, 100),
                     KegInstances[line.keg_instance_id].starting_oz)), "oz">>
          ELSE <<Null, "">>)
    ELSE IF line.derived_oz # Null THEN <<line.derived_oz, "oz">>
    ELSE IF line.gross_weight_grams # Null THEN <<line.gross_weight_grams, "grams">>
    ELSE <<Null, "">>

\* The actual of a line by its populated count method: the unit count, the
\* percentage of the keg's starting volume, or the derived volume.
CountedActual(line) ==
    IF line.count_units # Null THEN line.count_units
    ELSE IF line.percent_remaining # Null /\ line.keg_instance_id # Null
    THEN float_value(float_mul(float_div(line.percent_remaining, 100),
                               KegInstances[line.keg_instance_id].starting_oz))
    ELSE IF line.derived_oz # Null THEN line.derived_oz
    ELSE 0

\* The rows a step adds to the ledger.
RowsAdded == SubSeq(ledger', Len(ledger) + 1, Len(ledger'))

\* The variance of a line of the session at a close: the line's counted
\* actual less the sum of the ledger deltas of its item stamped up to the
\* session's start.
LineVariance(session, line) ==
    CountedActual(line)
      - DeltaSum(ledger, ItemEventsUpTo(ledger, line.inventory_item_id,
                                        session.started_ts))

\* Row ev is the adjustment of a close of the session for the line, with
\* the reason supplied for the item (none when none was supplied).
AdjustmentOf(ev, session, line, reasons) ==
    /\ ev.event_type = "inventory_count_adjustment"
    /\ ev.inventory_item_id = line.inventory_item_id
    /\ ev.location_id = session.location_id
    /\ ev.quantity_delta = LineVariance(session, line)
    /\ ev.confidence_level = "measured"
    /\ ev.variance_reason = IF line.inventory_item_id \in DOMAIN reasons
                            THEN reasons[line.inventory_item_id] ELSE "null"

(* C23 as claimed: a close that returns posts, for each line with          *)
(* variance = actual - (sum of the ledger deltas of the line's item with   *)
(* event timestamp up to the session's start) other than 0, exactly one    *)
(* inventory_count_adjustment event with delta = variance, confidence      *)
(* measured and the reason supplied for the item, and no event for a line  *)
(* with variance = 0: the rows the close adds to the ledger are these      *)
(* events and no others.                                                   *)
C23_CloseAdjustments ==
    [][(result'.op = "close" /\ result'.status = "ok") =>
        LET session == invSessions[result'.args[1]]
            reasons == result'.args[2]
            lines == session.lines
            posted(k) == {n \in 1..Len(RowsAdded) :
                            RowsAdded[n].inventory_item_id = lines[k].inventory_item_id}
        IN  /\ RowsKept
            /\ \A k \in 1..Len(lines) :
                  IF LineVariance(session, lines[k]) = 0 THEN posted(k) = {}
                  ELSE /\ Cardinality(posted(k)) = 1
                       /\ \A n \in posted(k) :
                             AdjustmentOf(RowsAdded[n], session, lines[k], reasons)
            /\ Len(RowsAdded) =
                  Cardinality({k \in 1..Len(lines) :
                                 LineVariance(session, lines[k]) # 0})]_vars

(* C24 as claimed: the variance a close that returns has used for each     *)
(* line is the line's counted actual (unit count, percent remaining x the  *)
(* keg's starting volume, or derived volume) less the theoretical: the     *)
(* adjustment built for the line has that delta, and the total variance    *)
(* returned is the sum of the absolute values over the lines.              *)
C24_ActualByCountMethod ==
    [][(result'.op = "close" /\ result'.status = "ok") =>
        LET sid == result'.args[1]
            session == invSessions[sid]
            lines == session.lines
            emitted == result'.emitted
            var(k) == CountedActual(lines[k])
                        - DeltaSum(ledger, ItemEventsUpTo(ledger,
                              lines[k].inventory_item_id, session.started_ts))
        IN  \A k \in 1..Len(lines) :
               /\ get_counted_quantity(lines[k])[1] = CountedActual(lines[k])
               /\ var(k) # 0 =>
                     \E n \in 1..Len(emitted) :
                        /\ emitted[n].inventory_item_id = lines[k].inventory_item_id
                        /\ emitted[n].quantity_delta = var(k)]_vars

-----------------------------------------------------------------------------
(* Reporting: InventoryService, VarianceService, KegInstance.get_remaining_oz *)

\* Table inventory_items: id -> location, active flag and tracked unit.
InventoryItems ==
    << [location_id |-> "loc1", active |-> TRUE, base_uom |-> "oz"],
       [location_id |-> "loc1", active |-> TRUE, base_uom |-> "units"],
       [location_id |-> "loc1", active |-> FALSE, base_uom |-> "units"],
       [location_id |-> "loc2", active |-> TRUE, base_uom |-> "units"],
       [location_id |-> "loc1", active |-> FALSE, base_uom |-> "units"] >>

\* The query for the items of a report: the active items of the location.
\* The query has no ORDER BY, so the rows come in whatever order the storage
\* returns them: the set of the lists it can answer.
ActiveItems(location_id) ==
    Orderings({i \in 1..Len(InventoryItems) :
                  /\ InventoryItems[i].location_id = location_id
                  /\ InventoryItems[i].active})

\* The deltas of the item's events of one type with from_date <= event_ts
\* < to_date, summed: the two queries of calculate_variance_report.
RECURSIVE sum_in_window(_, _, _, _, _)
sum_in_window(led, item_id, event_type, from_date, to_date) ==
    IF led = <<>> THEN 0
    ELSE (IF /\ Head(led).inventory_item_id = item_id
             /\ Head(led).event_ts >= from_date
             /\ Head(led).event_ts < to_date
             /\ Head(led).event_type = event_type
          THEN Head(led).quantity_delta ELSE 0)
         + sum_in_window(Tail(led), item_id, event_type, from_date, to_date)

\* One entry of the items list of calculate_variance_report (the price
\* columns and the percentage, which no property here reads, are left out).
variance_report_item(led, item_id, from_date, to_date) ==
    LET theoretical == sum_in_window(led, item_id, "pos_sale", from_date, to_date)
        adjustments == sum_in_window(led, item_id, "inventory_count_adjustment",
                                     from_date, to_date)
        actual == theoretical + adjustments
        variance == actual - theoretical
    IN  [inventory_item_id |-> item_id,
         theoretical |-> Abs(theoretical),
         actual |-> Abs(actual),
         variance |-> variance,
         uom |-> InventoryItems[item_id].base_uom]

\* One entry of the result of calculate_on_hand.
on_hand_item(led, item_id, as_of) ==
    [inventory_item_id |-> item_id,
     quantity |-> calculate_on_hand(led, item_id, as_of),
     uom |-> InventoryItems[item_id].base_uom]

\* KegInstance.get_remaining_oz: the starting volume plus the deltas of the
\* keg's events with event_ts <= as_of_date, not below zero.
RECURSIVE keg_delta(_, _, _)
keg_delta(led, keg_id, as_of_date) ==
    IF led = <<>> THEN 0
    ELSE (IF Head(led).keg_instance_id = keg_id /\ Head(led).event_ts <= as_of_date
          THEN Head(led).quantity_delta ELSE 0)
         + keg_delta(Tail(led), keg_id, as_of_date)

get_remaining_oz(led, keg_id, as_of_date) ==
    LET remaining == KegInstances[keg_id].starting_oz
                       + keg_delta(led, keg_id, as_of_date)
    IN  IF remaining > 0 THEN remaining ELSE 0

\* A plausible slip: a report that ends with db.commit().
OnHandReportCommitting(db, location_id, as_of) ==
    \E items \in ActiveItems(location_id) :
        /\ runs[db].pc = "idle"
        /\ result' = [NoResult EXCEPT !.op = "on_hand", !.status = "ok",
                         !.args = <<location_id, as_of>>,
                         !.ret = [n \in 1..Len(items) |->
                                     on_hand_item(ledger, items[n], as_of)]]
        /\ Commit(db, <<>>)
        /\ UNCHANGED <<sales, mappings, taps, invSessions, runs, now>>

\* InventoryService.calculate_on_hand: reads only.
OnHandReport(db, location_id, as_of) ==
    \E items \in ActiveItems(location_id) :
        /\ runs[db].pc = "idle"
        /\ result' = [NoResult EXCEPT !.op = "on_hand", !.status = "ok",
                         !.args = <<location_id, as_of>>,
                         !.ret = [n \in 1..Len(items) |->
                                     on_hand_item(ledger, items[n], as_of)]]
        /\ UNCHANGED <<sales, mappings, taps, invSessions, ledger, pending, runs, now>>

\* VarianceService.calculate_variance_report: reads only.
VarianceReport(db, location_id, from_date, to_date) ==
    \E items \in ActiveItems(location_id) :
        /\ runs[db].pc = "idle"
        /\ result' = [NoResult EXCEPT !.op = "variance_report", !.status = "ok",
                         !.args = <<location_id, from_date, to_date>>,
                         !.ret = [n \in 1..Len(items) |->
                                     variance_report_item(ledger, items[n],
                                                          from_date, to_date)]]
        /\ UNCHANGED <<sales, mappings, taps, invSessions, ledger, pending, runs, now>>

\* keg.get_remaining_oz(as_of_date) on a keg loaded in the session.
KegRemaining(db, keg_id, as_of_date) ==
    /\ runs[db].pc = "idle"
    /\ result' = [NoResult EXCEPT !.op = "keg_remaining", !.status = "ok",
                     !.args = <<keg_id, as_of_date>>,
                     !.ret = <<get_remaining_oz(ledger, keg_id, as_of_date)>>]
    /\ UNCHANGED <<sales, mappings, taps, invSessions, ledger, pending, runs, now>>

\* A report has been asked.
Reported == result.op \in {"on_hand", "variance_report", "keg_remaining"}

\* A report changes nothing but what it returns, so whatever can follow it
\* can follow the state it was asked in: each behaviour carries one report,
\* asked after any sequence of writes.
OnHand == ~Reported /\ \E as_of \in Times : OnHandReport("db1", "loc1", as_of)

\* The windows of the variance reports asked: the whole span of the data, and
\* one that leaves out what is stamped at its two ends.
ReportWindows == {<<0, MaxTime + 1>>, <<1, MaxTime>>}

Variances ==
    /\ ~Reported
    /\ \E w \in ReportWindows : VarianceReport("db1", "loc1", w[1], w[2])

Kegs ==
    /\ ~Reported
    /\ \E keg_id \in DOMAIN KegInstances, as_of \in Times :
          KegRemaining("db1", keg_id, as_of)

Writes ==
    /\ ~Reported
    /\ (ProcessSalesLines("db1", "loc1", 0, MaxTime + 1) \/ Correct \/ Close)

NextReport == Writes \/ OnHand \/ Variances \/ Kegs

SpecReport == Init /\ [][NextReport]_vars

\* Rows of led for the item with t1 < event timestamp <= t2.
ItemEventsBetween(led, item_id, t1, t2) ==
    {i \in 1..Len(led) : /\ led[i].inventory_item_id = item_id
                         /\ t1 < led[i].event_ts /\ led[i].event_ts <= t2}

(* C25: over the ledger any step leaves, for every item and cutoffs        *)
(* t1 <= t2, on_hand(t2) - on_hand(t1) is the sum of the deltas of the     *)
(* item's events with t1 < event_ts <= t2; a step that appends events      *)
(* changes on_hand(t) of an item by the sum of the deltas of the appended  *)
(* events of the item stamped up to t, so by nothing for t before their    *)
(* timestamps; and the quantity an on-hand report gives is the sum up to   *)
(* its cutoff.                                                             *)
C25_BalanceConservation ==
    [][/\ ledger' # ledger =>
             \A item \in DOMAIN InventoryItems, t1 \in Times, t2 \in Times :
                t1 <= t2 =>
                   calculate_on_hand(ledger', item, t2) - calculate_on_hand(ledger', item, t1)
                      = DeltaSum(ledger', ItemEventsBetween(ledger', item, t1, t2))
       /\ (ledger' # ledger /\ RowsKept) =>
             \A item \in DOMAIN InventoryItems, t \in Times :
                calculate_on_hand(ledger', item, t) - calculate_on_hand(ledger, item, t)
                   = DeltaSum(ledger', {i \in (Len(ledger) + 1)..Len(ledger') :
                                          /\ ledger'[i].inventory_item_id = item
                                          /\ ledger'[i].event_ts <= t})
       /\ result'.op = "on_hand" =>
             \A n \in 1..Len(result'.ret) :
                result'.ret[n].quantity =
                   DeltaSum(ledger, ItemEventsUpTo(ledger,
                               result'.ret[n].inventory_item_id, result'.args[2]))]_vars

\* An on-hand report as of a cutoff that counts some events of an item and
\* leaves out a later one.
C25_Witness ==
    /\ result.op = "on_hand"
    /\ \E n \in 1..Len(result.ret) :
          LET item == result.ret[n].inventory_item_id
          IN  /\ ItemEventsUpTo(ledger, item, result.args[2]) # {}
              /\ ItemEventsBetween(ledger, item, result.args[2], MaxTime) # {}
              /\ result.ret[n].quantity # 0

(* C26 as claimed: the remaining volume of a keg as of a cutoff is its     *)
(* starting volume plus the sum of the deltas of the events that reference *)
(* the keg up to the cutoff, also when that sum is below zero.             *)
C26_KegRemaining ==
    [][result'.op = "keg_remaining" =>
          LET keg_id == result'.args[1]
              as_of == result'.args[2]
          IN  result'.ret[1] =
                 KegInstances[keg_id].starting_oz
                   + DeltaSum(ledger, {i \in 1..Len(ledger) :
                                          /\ ledger[i].keg_instance_id = keg_id
                                          /\ ledger[i].event_ts <= as_of})]_vars

\* Rows of led of one type for the item with from <= event timestamp < to.
TypedEventsIn(led, item_id, event_type, from_date, to_date) ==
    {i \in 1..Len(led) : /\ led[i].inventory_item_id = item_id
                         /\ led[i].event_type = event_type
                         /\ from_date <= led[i].event_ts
                         /\ led[i].event_ts < to_date}

(* C27 as claimed: each entry of a variance report gives theoretical = the *)
(* sum of the item's pos_sale deltas in the window, actual = theoretical + *)
(* the sum of the item's inventory_count_adjustment deltas in the window,  *)
(* and variance = the actual it gives less the theoretical it gives.       *)
C27_VarianceReport ==
    [][result'.op = "variance_report" =>
          \A n \in 1..Len(result'.ret) :
             LET r == result'.ret[n]
                 sold == DeltaSum(ledger, TypedEventsIn(ledger, r.inventory_item_id,
                            "pos_sale", result'.args[2], result'.args[3]))
                 adjusted == DeltaSum(ledger, TypedEventsIn(ledger, r.inventory_item_id,
                            "inventory_count_adjustment", result'.args[2], result'.args[3]))
             IN  /\ r.theoretical = sold
                 /\ r.actual = sold + adjusted
                 /\ r.variance = r.actual - r.theoretical]_vars

(* C28: an on-hand report, a variance report or a keg's remaining volume,  *)
(* asked in any state, leaves every table, the ledger and what the session *)
(* holds pending as they were.                                             *)
C28_ReportsReadOnly ==
    [][result'.op \in {"on_hand", "variance_report", "keg_remaining"} =>
          /\ ledger' = ledger
          /\ pending' = pending
          /\ sales' = sales /\ mappings' = mappings /\ taps' = taps
          /\ invSessions' = invSessions]_vars

\* A variance report over a ledger with events, asked on a session that
\* still holds an event added by a call that failed.
C28_Witness ==
    /\ result.op = "variance_report"
    /\ ledger # <<>>
    /\ pending["db1"] # <<>>
    /\ \E n \in 1..Len(result.ret) : result.ret[n].theoretical # 0

-----------------------------------------------------------------------------
(* Inserts into sales_lines *)

\* size_modifier_id is the one nullable column of the key: SQL NULL.
SqlNull == "null"

\* A SalesLine with the columns the unique constraint names.
KeyedSale(business_date, receipt_id, line_id, size_modifier_id) ==
    [location_id |-> "loc1", source_system |-> "toast", pos_item_id |-> "pint",
     sold_at |-> business_date, quantity |-> 1,
     is_voided |-> FALSE, is_refunded |-> FALSE,
     source_location_id |-> "store-1", business_date |-> business_date,
     receipt_id |-> receipt_id, line_id |-> line_id,
     size_modifier_id |-> size_modifier_id]

\* The columns of uq_salesline_idempotency, in the constraint's order.
IdempotencyKey(row) ==
    <<row.source_system, row.source_location_id, row.business_date,
      row.receipt_id, row.line_id, row.size_modifier_id>>

\* UNIQUE (...) as PostgreSQL enforces it: two rows conflict when every
\* column of the key is equal and none of them is NULL; size_modifier_id is
\* the only column of the key that can be NULL.
uq_salesline_idempotency(table, row) ==
    \E i \in 1..Len(table) :
        /\ IdempotencyKey(table[i]) = IdempotencyKey(row)
        /\ row.size_modifier_id # SqlNull

\* INSERT of one SalesLine: rejected with IntegrityError by the constraint,
\* stored otherwise.
InsertSalesLine(db, row) ==
    /\ Len(sales) <= MaxRows
    /\ IF uq_salesline_idempotency(sales, row)
       THEN /\ result' = [NoResult EXCEPT !.op = "insert", !.status = "error",
                             !.error = "IntegrityError", !.args = <<row>>]
            /\ UNCHANGED sales
       ELSE /\ result' = [NoResult EXCEPT !.op = "insert", !.status = "ok",
                             !.args = <<row>>]
            /\ sales' = Append(sales, row)
    /\ UNCHANGED <<mappings, taps, invSessions, ledger, pending, runs, now>>

InitIngest ==
    /\ InitTables
    /\ mappings = <<>>
    /\ taps = <<>>
    /\ sales = <<>>
    /\ invSessions = <<>>

Ingest ==
    \E business_date \in Times, receipt_id \in {"r1", "r2"},
       size_modifier_id \in {SqlNull, "16oz"} :
        InsertSalesLine("db1", KeyedSale(business_date, receipt_id, "1", size_modifier_id))

NextIngest == Ingest

SpecIngest == InitIngest /\ [][NextIngest]_vars

(* C29 as claimed: no two rows of sales_lines share the tuple (source      *)
(* system, source location, business date, receipt id, line id, size       *)
(* modifier id), also when the size modifier id is absent on both; and an  *)
(* insert whose tuple equals that of a stored row is rejected and stores   *)
(* nothing.                                                                *)
C29_SalesLineUnique ==
    [][/\ \A i \in 1..Len(sales'), j \in 1..Len(sales') :
             i # j => IdempotencyKey(sales'[i]) # IdempotencyKey(sales'[j])
       /\ (/\ result'.op = "insert"
           /\ \E i \in 1..Len(sales) :
                 IdempotencyKey(sales[i]) = IdempotencyKey(result'.args[1]))
             => (result'.error = "IntegrityError" /\ sales' = sales)]_vars

\* The unit of the event is the tracked unit of its item.
UnitMatches(e) == e.uom = InventoryItems[e.inventory_item_id].base_uom

(* C30 as claimed: every event a step posts to the ledger has the unit its *)
(* inventory item is tracked in, and a correct_event whose chosen unit     *)
(* differs from the tracked unit of the original's item fails with         *)
(* IntegrityError and posts nothing.                                       *)
C30_UnitMatchesItem ==
    [][/\ RowsKept =>
             \A i \in (Len(ledger) + 1)..Len(ledger') : UnitMatches(ledger'[i])
       /\ (/\ result'.op = "correct"
           /\ result'.args[1] \in 1..Len(ledger)
           /\ result'.args[3] #
                 InventoryItems[ledger[result'.args[1]].inventory_item_id].base_uom)
             => (result'.error = "IntegrityError" /\ ledger' = ledger)]_vars

\* Line k of the run of this step was not depleted before the run, is not
\* voided or refunded, and has one effective mapping, of mode packaged_unit.
PackagedLine(k) ==
    LET slId == result'.ids[k]
        sl == sales[slId]
        ms == EffectiveMappings(result'.args[1], sl.source_system,
                                sl.pos_item_id, sl.sold_at)
    IN  /\ EventsOf(ledger, slId) = {}
        /\ ~sl.is_voided /\ ~sl.is_refunded
        /\ Cardinality(ms) = 1
        /\ \A m \in ms : mappings[m].mode = "packaged_unit"

(* C31: for a line that is not voided or refunded and has a direct-unit    *)
(* mapping, the run emits exactly one event: type pos_sale, delta =        *)
(* -quantity, unit units, confidence theoretical, event timestamp = the    *)
(* sale timestamp, the mapping's item, the line's location and source      *)
(* system, no keg and no tap line, and the line as its sales line.         *)
C31_PackagedEvent ==
    [][result'.op = "run" =>
        \A k \in Reached :
            PackagedLine(k) =>
                LET slId == result'.ids[k]
                    sl == sales[slId]
                    m == MappingOfLine(k)
                    evs == EventsOf(result'.emitted, slId)
                IN  /\ Cardinality(evs) = 1
                    /\ \A i \in evs :
                        LET e == result'.emitted[i]
                        IN  /\ e.event_type = "pos_sale"
                            /\ e.quantity_delta = 0 - sl.quantity
                            /\ e.uom = "units"
                            /\ e.confidence_level = "theoretical"
                            /\ e.event_ts = sl.sold_at
                            /\ e.inventory_item_id = m.inventory_item_id
                            /\ e.location_id = sl.location_id
                            /\ e.source_system = sl.source_system
                            /\ e.keg_instance_id = Null
                            /\ e.tap_line_id = Null
                            /\ e.reversal_of_event_id = Null]_vars

\* Two cans sold at time 1 while the can maps to item 2: a run that returned
\* posted one event of -2 units on item 2 for the line.
C31_Witness ==
    /\ result.op = "run" /\ result.status = "ok"
    /\ \E i \in 1..Len(ledger) :
          /\ ledger[i].sales_line_id \in 1..Len(sales)
          /\ sales[ledger[i].sales_line_id].pos_item_id = "can"
          /\ sales[ledger[i].sales_line_id].quantity = 2
          /\ ledger[i].quantity_delta = 0 - 2
          /\ ledger[i].uom = "units"
          /\ ledger[i].inventory_item_id = 2
          /\ \E n \in 1..Len(result.emitted) : result.emitted[n] = ledger[i]

\* The row reached from row i of led by following reversal_of n times; Null
\* once a row without a back-reference has been passed.
RECURSIVE FollowReversals(_, _, _)
FollowReversals(led, i, n) ==
    IF i = Null \/ n = 0 THEN i
    ELSE FollowReversals(led, led[i].reversal_of_event_id, n - 1)

(* C32: in the ledger any step leaves, every event with reversal_of set    *)
(* references a row posted before it (so never itself), the rows a step    *)
(* adds reference only rows that were in the ledger before the step, and   *)
(* following reversal_of from any row runs out of back-references within   *)
(* as many hops as the ledger has rows.                                    *)
C32_ReversalLinksAcyclic ==
    [][/\ \A i \in 1..Len(ledger') :
             ledger'[i].reversal_of_event_id # Null =>
                ledger'[i].reversal_of_event_id \in 1..(i - 1)
       /\ RowsKept =>
             \A i \in (Len(ledger) + 1)..Len(ledger') :
                ledger'[i].reversal_of_event_id # Null =>
                   ledger'[i].reversal_of_event_id \in 1..Len(ledger)
       /\ \A i \in 1..Len(ledger') :
             FollowReversals(ledger', i, Len(ledger')) = Null]_vars

\* A chain of two back-references: a correction of the reversal that an
\* earlier correction posted.
C32_Witness ==
    /\ result.op = "correct" /\ result.status = "ok"
    /\ \E i \in 1..Len(ledger) :
          /\ ledger[i].reversal_of_event_id # Null
          /\ ledger[ledger[i].reversal_of_event_id].reversal_of_event_id # Null

(* C33 as claimed: once a run that returned has covered a voided or        *)
(* refunded line, the deltas of all the ledger events that reference the   *)
(* line sum to zero.                                                       *)
C33_VoidedNetsToZero ==
    [][(result'.op = "run" /\ result'.status = "ok") =>
        \A k \in 1..Len(result'.ids) :
            LET slId == result'.ids[k]
            IN  (sales[slId].is_voided \/ sales[slId].is_refunded) =>
                    DeltaSum(ledger', EventsOf(ledger', slId)) = 0]_vars

(* C34 as claimed: no event is referenced by the reversal_of of more than  *)
(* one event.                                                              *)
C34_ReversedAtMostOnce ==
    \A i \in 1..Len(ledger), j \in 1..Len(ledger) :
        (i # j /\ ledger[i].reversal_of_event_id # Null) =>
            ledger[i].reversal_of_event_id # ledger[j].reversal_of_event_id

\* No item is on two lines of the session.
OneLinePerItem(session) ==
    \A j \in 1..Len(session.lines), k \in 1..Len(session.lines) :
        j # k => session.lines[j].inventory_item_id # session.lines[k].inventory_item_id

(* C35 as claimed: after a close that returns, of a session with each     *)
(* item on one line, for each line: the sum of the ledger deltas of the    *)
(* item stamped up to the session's start plus the delta of the adjustment *)
(* the close posted for the item (zero when it posted none) is the line's  *)
(* counted actual.                                                         *)
C35_CloseReconciles ==
    [][(/\ result'.op = "close" /\ result'.status = "ok"
        /\ OneLinePerItem(invSessions[result'.args[1]])) =>
        LET session == invSessions[result'.args[1]]
        IN  \A k \in 1..Len(session.lines) :
               LET item == session.lines[k].inventory_item_id
                   before == DeltaSum(ledger, ItemEventsUpTo(ledger, item,
                                                            session.started_ts))
                   posted == {i \in (Len(ledger) + 1)..Len(ledger') :
                                 ledger'[i].inventory_item_id = item}
               IN  before + DeltaSum(ledger', posted)
                      = CountedActual(session.lines[k])]_vars

-----------------------------------------------------------------------------
(* Two closes at once, each on its own database session.  Every query of a *)
(* close reads the rows committed at that moment.                           *)

NewClose == [added |-> <<>>, requires_reasons |-> <<>>, total_variance |-> 0]

\* The query for the session and the two checks that follow it.
CloseBegin(db, session_id, variance_reasons) ==
    LET res == [NoResult EXCEPT !.op = "close",
                                !.args = <<session_id, variance_reasons>>]
    IN  /\ runs[db].pc = "idle"
        /\ IF session_id \notin 1..Len(invSessions)
           THEN /\ runs' = [runs EXCEPT ![db] = Returned]
                /\ result' = [res EXCEPT !.status = "error",
                                         !.error = "ValueError: Session not found"]
           ELSE IF invSessions[session_id].ended_ts # Null
           THEN /\ runs' = [runs EXCEPT ![db] = Returned]
                /\ result' = [res EXCEPT !.status = "error",
                                         !.error = "ValueError: Session already closed"]
           ELSE \E lines \in session_lines(invSessions[session_id]) :
                /\ runs' = [runs EXCEPT ![db] =
                              [pc |-> "lines", session_id |-> session_id,
                               session |-> invSessions[session_id],
                               reasons |-> variance_reasons,
                               todo |-> lines,
                               acc |-> NewClose]]
                /\ UNCHANGED result
        /\ UNCHANGED <<sales, mappings, taps, invSessions, ledger, pending, now>>

\* The query of a pass of the loop over session.lines: the theoretical
\* on-hand of the line's item, from the rows committed at that moment.  A
\* line that gets no event (its item is put on requires_reasons, or its
\* variance is zero) is done with; for any other the clock is read next.
CloseTheoretical(db) ==
    LET c == runs[db]
        line == Head(c.todo)
        theoretical == calculate_theoretical_on_hand(
                           ledger, line.inventory_item_id, c.session.started_ts)
        next == close_line(c.session, line, c.reasons, theoretical, <<now>>, c.acc)
    IN  /\ c.pc = "lines"
        /\ c.todo # <<>>
        /\ IF Len(next.added) > Len(c.acc.added)
           THEN runs' = [runs EXCEPT ![db] =
                            [pc |-> "stamp", session_id |-> c.session_id,
                             session |-> c.session, reasons |-> c.reasons,
                             todo |-> c.todo, acc |-> c.acc,
                             theoretical |-> theoretical]]
           ELSE runs' = [runs EXCEPT ![db].todo = Tail(@), ![db].acc = next]
        /\ UNCHANGED <<sales, mappings, taps, invSessions, ledger, pending, now,
                       result>>

\* The rest of the pass for a line that gets an event: datetime.utcnow()
\* returns ts, and the event built from the theoretical read before is
\* passed to db.add.
CloseAdjust(db, ts) ==
    LET c == runs[db]
    IN  /\ c.pc = "stamp"
        /\ ts >= now
        /\ now' = ts
        /\ runs' = [runs EXCEPT ![db] =
                      [pc |-> "lines", session_id |-> c.session_id,
                       session |-> c.session, reasons |-> c.reasons,
                       todo |-> Tail(c.todo),
                       acc |-> close_line(c.session, Head(c.todo), c.reasons,
                                          c.theoretical, <<ts>>, c.acc)]]
        /\ UNCHANGED <<sales, mappings, taps, invSessions, ledger, pending, result>>

\* After the loop: the exception for missing reasons, or ended_ts set on the
\* session object to the value ts that datetime.utcnow() returns.
CloseEnded(db, ts) ==
    LET c == runs[db]
        res == [NoResult EXCEPT !.op = "close",
                                !.args = <<c.session_id, c.reasons>>,
                                !.emitted = c.acc.added]
    IN  /\ c.pc = "lines"
        /\ c.todo = <<>>
        /\ IF c.acc.requires_reasons # <<>>
           THEN /\ Raise(db, c.acc.added)
                /\ runs' = [runs EXCEPT ![db] = Returned]
                /\ result' = [res EXCEPT !.status = "error",
                                 !.error = "ValueError: Variance reasons required",
                                 !.ret = c.acc.requires_reasons]
                /\ UNCHANGED now
           ELSE /\ ts >= now
                /\ now' = ts
                /\ runs' = [runs EXCEPT ![db] =
                              [pc |-> "commit", session_id |-> c.session_id,
                               reasons |-> c.reasons, acc |-> c.acc,
                               ended_ts |-> ts]]
                /\ UNCHANGED <<pending, result>>
        /\ UNCHANGED <<sales, mappings, taps, invSessions, ledger>>

\* db.commit(): the flush INSERTs the events and UPDATEs the session row, by
\* its primary key, with the ended_ts set before.
CloseCommit(db) ==
    LET c == runs[db]
        res == [NoResult EXCEPT !.op = "close",
                                !.args = <<c.session_id, c.reasons>>,
                                !.emitted = c.acc.added]
    IN  /\ c.pc = "commit"
        /\ Len(ledger) + Len(pending[db]) + Len(c.acc.added) <= MaxLedger
        /\ Commit(db, c.acc.added)
        /\ invSessions' = [invSessions EXCEPT ![c.session_id].ended_ts = c.ended_ts]
        /\ runs' = [runs EXCEPT ![db] = Returned]
        /\ result' = [res EXCEPT !.status = "ok",
                         !.ret = <<Len(c.acc.added), c.acc.total_variance>>]
        /\ UNCHANGED <<sales, mappings, taps, now>>

Closers ==
    \E db \in DbSessions, sid \in 1..(Len(invSessions) + 1), reasons \in ReasonDicts :
        CloseBegin(db, sid, reasons)

Theoreticals == \E db \in DbSessions : CloseTheoretical(db)

Adjusts == \E db \in DbSessions, ts \in Ticks : CloseAdjust(db, ts)

Endings == \E db \in DbSessions, ts \in Ticks : CloseEnded(db, ts)

Commits == \E db \in DbSessions : CloseCommit(db)

NextCloseConc ==
    Deplete \/ Closers \/ Theoreticals \/ Adjusts \/ Endings \/ Commits

SpecCloseConc == Init /\ [][NextCloseConc]_vars

(* C36 as claimed: whatever the interleaving of two closes of the same     *)
(* open session, the ledger never holds two adjustment events for the same *)
(* session line.                                                           *)
C36_OneCloserPosts ==
    \A i \in 1..Len(ledger), j \in 1..Len(ledger) :
        (/\ i # j
         /\ ledger[i].event_type = "inventory_count_adjustment"
         /\ ledger[j].event_type = "inventory_count_adjustment")
            => ledger[i].inventory_item_id # ledger[j].inventory_item_id

\* The sales lines of the location sold in [from, to).
SoldIn(location_id, from_ts, to_ts) ==
    {i \in 1..Len(sales) : /\ sales[i].location_id = location_id
                           /\ from_ts <= sales[i].sold_at
                           /\ sales[i].sold_at < to_ts}

(* C37: the lines a run examines are the lines of the location with        *)
(* from <= sold_at < to, each once: a line sold at from is among them, a   *)
(* line sold at to is not; and when a run over [b, c) follows a run over   *)
(* [a, b) of the same location, every line with a <= sold_at < c was       *)
(* examined by exactly one of the two.                                     *)
C37_HalfOpenWindow ==
    [][result'.op = "run" =>
        LET loc == result'.args[1]
            ids == result'.ids
        IN  /\ Range(ids) = SoldIn(loc, result'.args[2], result'.args[3])
            /\ \A j \in 1..Len(ids), k \in 1..Len(ids) : j # k => ids[j] # ids[k]
            /\ \A i \in 1..Len(sales) :
                  sales[i].location_id = loc =>
                     /\ sales[i].sold_at = result'.args[2] => i \in Range(ids)
                     /\ sales[i].sold_at = result'.args[3] => i \notin Range(ids)
            /\ (/\ result.op = "run"
                /\ result.args[1] = loc
                /\ result.args[3] = result'.args[2]) =>
                  /\ Range(result.ids) \cap Range(ids) = {}
                  /\ Range(result.ids) \cup Range(ids) =
                        SoldIn(loc, result.args[2], result'.args[3])]_vars

\* A run, after an earlier one, over a window that starts at the sale
\* timestamp of one line, which it examined and posted an event for, and
\* ends at the sale timestamp of another, which it did not examine.
C37_Witness ==
    /\ result.op = "run" /\ result.status = "ok"
    /\ result.emitted # <<>>
    /\ Len(ledger) > Len(result.emitted)
    /\ \A n \in 1..Len(result.emitted) : result.emitted[n].event_ts = result.args[2]
    /\ \E k \in 1..Len(result.ids) : sales[result.ids[k]].sold_at = result.args[2]
    /\ \E i \in 1..Len(sales) :
          /\ sales[i].location_id = result.args[1]
          /\ sales[i].sold_at = result.args[3]
          /\ i \notin Range(result.ids)

(* C38 as claimed: for every run that returns, processed + skipped is the  *)
(* number of sales lines of the location in the window (skipped the lines  *)
(* that had an event before the run, processed the others); created is the *)
(* number of events the run added to the ledger; a processed line has at   *)
(* most one of them and a skipped line none; and                           *)
(* created + unmapped <= processed.                                        *)
C38_RunCounts ==
    [][(result'.op = "run" /\ result'.status = "ok") =>
        LET stats == result'.stats
            inWindow == SoldIn(result'.args[1], result'.args[2], result'.args[3])
            depleted == {i \in inWindow : EventsOf(ledger, i) # {}}
            added == RowsAdded
        IN  /\ stats.processed + stats.skipped = Cardinality(inWindow)
            /\ stats.skipped = Cardinality(depleted)
            /\ stats.processed = Cardinality(inWindow \ depleted)
            /\ RowsKept
            /\ stats.created = Len(added)
            /\ \A n \in 1..Len(added) : added[n].sales_line_id \in inWindow \ depleted
            /\ \A i \in inWindow \ depleted : Cardinality(EventsOf(added, i)) <= 1
            /\ \A i \in depleted : EventsOf(added, i) = {}
            /\ stats.created + stats.unmapped <= stats.processed]_vars

-----------------------------------------------------------------------------
(* Depletion runs while the catalogue is completed: a mapping is added for *)
(* a line a run has just counted as unmapped, a tap assignment for a line  *)
(* a run has just left without event for lack of one.                      *)

\* The last operation was a run that logged entry for sales line slId.
LastRunLogged(slId, entry) ==
    /\ result.op = "run"
    /\ \E k \in 1..Len(result.log) : result.log[k] = <<slId, entry>>

\* INSERT of a POSItemMapping row.
AddMapping(row, slId) ==
    /\ LastRunLogged(slId, "no mapping")
    /\ row.pos_item_id = sales[slId].pos_item_id
    /\ row.effective_from_ts <= sales[slId].sold_at
    /\ mappings' = Append(mappings, row)
    /\ result' = [NoResult EXCEPT !.op = "add mapping", !.status = "ok",
                                  !.args = <<row, slId>>]
    /\ UNCHANGED <<sales, taps, invSessions, ledger, pending, runs, now>>

\* INSERT of a TapAssignment row, for sales line slId: the table's CHECK
\* check_assignment_time_range refuses a row whose end is not after its
\* start, and the table is left as it was.
AddAssignment(row, slId) ==
    LET insert == [NoResult EXCEPT !.op = "add assignment", !.args = <<row, slId>>]
    IN  /\ IF \/ row.effective_end_ts = Null
              \/ row.effective_end_ts > row.effective_start_ts
           THEN /\ taps' = Append(taps, row)
                /\ result' = [insert EXCEPT !.status = "ok"]
           ELSE /\ taps' = taps
                /\ result' = [insert EXCEPT !.status = "error",
                                            !.error = "IntegrityError"]
        /\ UNCHANGED <<sales, mappings, invSessions, ledger, pending, runs, now>>

\* A catalogue with the draft mapping of the pint and nothing else: no
\* mapping for the can or the soda, no keg on the tap.
InitRemap ==
    /\ InitTables
    /\ mappings = << Mapping("pint", 1, "draft_by_tap", 1, 1, TRUE, 0, Null) >>
    /\ taps = <<>>
    /\ sales \in { <<SaleRows[i], SaleRows[j]>> : i \in {1, 5}, j \in {2, 3} }
    /\ invSessions \in SessionTables

Remap ==
    \E slId \in 1..Len(sales), from \in Times :
        AddMapping(Mapping(sales[slId].pos_item_id, 2, "packaged_unit",
                           Null, Null, TRUE, from, Null), slId)

\* A keg is put on the tap for a line the last run left for lack of one,
\* from the first instant or from the sale: open-ended, or until an end at
\* the start (refused), at the sale (the window stops short of it, or is
\* refused) or after the sale (the window covers it).
Retap ==
    \E slId \in 1..Len(sales), keg \in DOMAIN KegInstances :
        \E start \in {0, sales[slId].sold_at} :
        \E end \in {Null, start, sales[slId].sold_at, sales[slId].sold_at + 1} :
            /\ LastRunLogged(slId, "no tap assignment")
            /\ Len(taps) < MaxRows
            /\ AddAssignment(Assignment(1, keg, start, end), slId)

NextRemap == Run \/ Remap \/ Retap

SpecRemap == InitRemap /\ [][NextRemap]_vars

\* Line k of the run of this step has no event in the ledger, is not voided
\* or refunded, and resolves: one effective mapping, direct-unit or
\* tap-scoped draft with a pour profile and an assignment in effect.
ResolvableLine(k) ==
    \/ PackagedLine(k)
    \/ (DraftLine(k) /\ AssignmentsOfLine(k) # {})

\* Line k of the run of this step has no event in the ledger and does not
\* resolve: no effective mapping, or tap-scoped draft with no assignment.
UnresolvedLine(k) ==
    \/ UnmappedLine(k)
    \/ (DraftLine(k) /\ AssignmentsOfLine(k) = {})

\* The row the last operation inserted covers the sale timestamp of the
\* line it was inserted for.
InsertedCovers ==
    LET row == result.args[1]
        t == sales[result.args[2]].sold_at
    IN  IF result.op = "add mapping"
        THEN Covers(row.effective_from_ts, row.effective_to_ts, t)
        ELSE Covers(row.effective_start_ts, row.effective_end_ts, t)

(* C39: a line a run counts as unmapped, or leaves unresolved for lack of  *)
(* a tap assignment, has no event in the ledger after the run; a run that  *)
(* covers a line without events that now resolves posts exactly one event  *)
(* for it, in particular the run that follows the insertion of the mapping *)
(* or assignment the line was waiting for; and a run that covers a line    *)
(* with an event posts nothing more for it.                                *)
C39_UnmappedDepletedLater ==
    [][result'.op = "run" =>
        LET ids == result'.ids
        IN  /\ \A k \in 1..Len(ids) :
                  UnresolvedLine(k) =>
                     /\ EventsOf(result'.emitted, ids[k]) = {}
                     /\ EventsOf(ledger', ids[k]) = {}
            /\ \A k \in 1..Len(ids) :
                  (ResolvableLine(k) /\ result'.status = "ok") =>
                     /\ Cardinality(EventsOf(result'.emitted, ids[k])) = 1
                     /\ Cardinality(EventsOf(ledger', ids[k])) = 1
            /\ \A k \in 1..Len(ids) :
                  EventsOf(ledger, ids[k]) # {} =>
                     /\ EventsOf(result'.emitted, ids[k]) = {}
                     /\ EventsOf(ledger', ids[k]) = EventsOf(ledger, ids[k])
            /\ (/\ result.op \in {"add mapping", "add assignment"}
                /\ result.status = "ok"
                /\ result.args[2] \in Range(ids)
                /\ InsertedCovers) =>
                  /\ EventsOf(ledger, result.args[2]) = {}
                  /\ Cardinality(EventsOf(ledger', result.args[2])) = 1]_vars

\* Both lines of the table have their event, each posted once: the can (or
\* soda) after a mapping was added for it, the pint after a keg was put on
\* the tap.
C39_Witness ==
    /\ result.op = "run" /\ result.status = "ok"
    /\ Len(mappings) = 2
    /\ Len(taps) >= 1
    /\ \A i \in 1..Len(sales) : Cardinality(EventsOf(ledger, i)) = 1
    /\ result.stats.skipped >= 1

====
